---- MODULE Spec2Model ----
(***************************************************************************)
(* Listing store and seller search engine of the AI Concierge backend      *)
(* (backend/app/repositories/listings.py and sellers.py).                  *)
(*                                                                         *)
(* Encoding of Python values:                                              *)
(*   None            the string "None"                                     *)
(*   a dict          a record with dict = TRUE; a non-dict has dict = FALSE*)
(*   True / False    the strings "True" / "False" where the field may also  *)
(*                   be absent ("None")                                    *)
(*   float distance  an integer, the distance times 100                    *)
(*   float score     an integer, the score times 10                        *)
(*   datetime        an integer of epoch seconds, 0 being the zero point,  *)
(*                   -1 for a published_at that is None                    *)
(***************************************************************************)
EXTENDS Integers, Sequences, FiniteSets, TLC

None == "None"

(* ---------------------------------------------------------------- bounds *)
\* most rows of the shared seller/document table
MaxRows == 3
\* most rows of the primary listings table
MaxListings == 2
\* largest limit a caller passes
MaxLimit == 3
\* settings.listings_per_seller of the run (an environment setting)
ListingsPerSeller == 1
MaxTasks == 2
\* longest list passed to filter_and_rank_listings, and largest max_items
MaxRankInput == 3
MaxItems == 2
\* longest npubs list of a check_handlers call, and the cache lookups all
\* calls make together
MaxNpubs == 2
MaxLookups == 3
\* the last tick of the clock, and cache_ttl in ticks
MaxClock == 1
CacheTtl == 1
\* most sellers handed to the merge loop
MaxMerge == 3
\* most strings handed to _normalize_pubkeys in one call
MaxKeys == 2
\* most listings of one seller handed to the geo annotation
MaxGeo == 2
\* most calls of NostrRelayPool.close that find a client
MaxCloses == 1
\* circuit_breaker_threshold and circuit_breaker_timeout (in clock ticks)
\* of the pool under check
CircuitBreakerThreshold == 2
CircuitBreakerTimeout == 1
\* most queries and add_relay failures counted for one relay, and the
\* last tick of the clock that the circuit breaker reads
MaxQueries == 4
MaxTicks == 3

(* ------------------------------------------------------ sequence helpers *)
Contains(seq, x) == \E i \in DOMAIN seq : seq[i] = x

Range(seq) == {seq[i] : i \in DOMAIN seq}

Min(a, b) == IF a <= b THEN a ELSE b

Max(a, b) == IF a >= b THEN a ELSE b

Take(seq, n) == SubSeq(seq, 1, Min(Len(seq), Max(n, 0)))

RECURSIVE SetToSeq(_)
\* the elements of a set of integers in ascending order (the table's row order)
SetToSeq(S) ==
  IF S = {} THEN <<>>
  ELSE LET m == CHOOSE x \in S : \A y \in S : x <= y
       IN <<m>> \o SetToSeq(S \ {m})

RECURSIVE Flatten(_)
\* the concatenation of a sequence of sequences
Flatten(seqs) ==
  IF seqs = <<>> THEN <<>> ELSE Head(seqs) \o Flatten(Tail(seqs))

RECURSIVE InsertByKey(_, _)
\* the pair x = [k, v] inserted into a sequence of pairs sorted by k, after
\* every pair whose key is not larger: list.sort is stable
InsertByKey(seq, x) ==
  IF seq = <<>> THEN <<x>>
  ELSE IF x.k < Head(seq).k THEN <<x>> \o seq
       ELSE <<Head(seq)>> \o InsertByKey(Tail(seq), x)

RECURSIVE SortPairs(_)
SortPairs(seq) ==
  IF seq = <<>> THEN <<>>
  ELSE InsertByKey(SortPairs(SubSeq(seq, 1, Len(seq) - 1)), seq[Len(seq)])

\* list.sort(key=...): seq in ascending order of keys[i], ties in their
\* original order
StableSort(seq, keys) ==
  LET sorted == SortPairs([i \in DOMAIN seq |-> [k |-> keys[i], v |-> seq[i]]])
  IN [i \in DOMAIN sorted |-> sorted[i].v]

(* ------------------------------------------------------------- strings *)
\* str.lower() on the strings of the model
Lower(s) ==
  CASE s = "Demo" -> "demo"
    [] s = "DEMO" -> "demo"
    [] s = "H1" -> "h1"
    [] s = "N1" -> "n1"
    [] OTHER -> s

(* --------------------------------------------------- key identity codec *)
\* "h1", "h2": 64-character lowercase hex keys; "n1", "n2": their npub
\* encodings; "H1", "N1": the upper-cased spellings of "h1" and "n1"
KeyStrings == {"h1", "h2", "n1", "n2", "H1", "N1"}

\* _npub_to_hex: the bech32 alphabet is lowercase, so "N1" does not decode
npub_to_hex(s) ==
  CASE s = "n1" -> "h1"
    [] s = "n2" -> "h2"
    [] OTHER -> None

IsHex64(s) == Lower(s) \in {"h1", "h2"}

RECURSIVE normalize_pubkeys(_)
normalize_pubkeys(pubkeys) ==
  IF pubkeys = <<>> THEN <<>>
  ELSE LET init == normalize_pubkeys(SubSeq(pubkeys, 1, Len(pubkeys) - 1))
           key == pubkeys[Len(pubkeys)]
           lowered == Lower(key)
           withLower == IF Contains(init, lowered) THEN init
                        ELSE Append(init, lowered)
           hex_key == npub_to_hex(key)
       IN IF key = None THEN init
          ELSE IF hex_key # None /\ ~Contains(withLower, hex_key)
               THEN Append(withLower, hex_key)
               ELSE withLower

RECURSIVE FirstHex(_)
FirstHex(keys) ==
  IF keys = <<>> THEN None
  ELSE IF IsHex64(Head(keys)) THEN Lower(Head(keys))
       ELSE FirstHex(Tail(keys))

select_canonical_key(keys) ==
  IF FirstHex(keys) # None THEN FirstHex(keys)
  ELSE IF keys # <<>> THEN Lower(keys[1]) ELSE None

(* ------------------------------------------------------ bech32 decoding *)
\* The decoder itself, on strings written as sequences of character codes.
\* npub_to_hex above is its table on the key names the stores hold; the
\* operators below compute what _npub_to_hex computes on any string.

Bech32Charset ==
  <<113, 112, 122, 114, 121, 57, 120, 56, 103, 102, 50, 116, 118, 100,
  119, 48, 115, 51, 106, 110, 53, 52, 107, 104, 99, 101, 54, 109, 117, 97,
  55, 108>>

NpubPool ==
  << \* the npub of a 32-byte key: npub1qv9pzxq...
     <<110, 112, 117, 98, 49, 113, 118, 57, 112, 122, 120, 113, 108, 121, 99,
     107, 110, 103, 119, 54, 122, 102, 57, 103, 57, 119, 104, 110, 57, 100,
     51, 101, 104, 52, 113, 118, 103, 51, 55, 116, 102, 109, 102, 57, 116,
     107, 50, 117, 117, 112, 51, 55, 119, 54, 104, 119, 113, 55, 104, 104,
     54, 122, 118>>,
     \* a bech32 string of prefix npub and a 16-byte payload: npub1qv9pzxq...
     <<110, 112, 117, 98, 49, 113, 118, 57, 112, 122, 120, 113, 108, 121, 99,
     107, 110, 103, 119, 54, 122, 102, 57, 103, 57, 119, 104, 110, 57, 100,
     115, 56, 101, 56, 119, 51, 101>>,
     \* a bech32 string of prefix npub and no payload: npub106246s...
     <<110, 112, 117, 98, 49, 48, 54, 50, 52, 54, 115>>,
     \* a bech32 string of prefix npub and a 33-byte payload: npub1qv9pzxq...
     <<110, 112, 117, 98, 49, 113, 118, 57, 112, 122, 120, 113, 108, 121, 99,
     107, 110, 103, 119, 54, 122, 102, 57, 103, 57, 119, 104, 110, 57, 100,
     51, 101, 104, 52, 113, 118, 103, 51, 55, 116, 102, 109, 102, 57, 116,
     107, 50, 117, 117, 112, 51, 55, 119, 54, 104, 119, 119, 120, 53, 113,
     55, 104, 108, 122>>,
     \* the nsec (another prefix) of a 32-byte key: nsec1qv9pzxq...
     <<110, 115, 101, 99, 49, 113, 118, 57, 112, 122, 120, 113, 108, 121, 99,
     107, 110, 103, 119, 54, 122, 102, 57, 103, 57, 119, 104, 110, 57, 100,
     51, 101, 104, 52, 113, 118, 103, 51, 55, 116, 102, 109, 102, 57, 116,
     107, 50, 117, 117, 112, 51, 55, 119, 54, 104, 119, 113, 106, 112, 117,
     109, 121, 101>> >>

\* str.strip(): without the white space at either end
str_strip(chars) ==
  LET whitespace == {9, 10, 11, 12, 13, 28, 29, 30, 31, 32}
      kept == {i \in 1 .. Len(chars) : chars[i] \notin whitespace}
  IN  IF kept = {} THEN <<>>
      ELSE SubSeq(chars,
                  CHOOSE i \in kept : \A j \in kept : i <= j,
                  CHOOSE i \in kept : \A j \in kept : i >= j)

\* str.rfind("1"), counted from 1 (0 when there is none)
rfind(chars, code) ==
  IF \A i \in 1 .. Len(chars) : chars[i] # code
  THEN 0
  ELSE CHOOSE i \in 1 .. Len(chars) :
         chars[i] = code /\ \A j \in i + 1 .. Len(chars) : chars[j] # code

\* _BECH32_CHARSET.index(c), counted from 0 (-1 for the ValueError)
charset_index(c) ==
  IF \E i \in 1 .. Len(Bech32Charset) : Bech32Charset[i] = c
  THEN (CHOOSE i \in 1 .. Len(Bech32Charset) : Bech32Charset[i] = c) - 1
  ELSE -1

\* a ^ b on the low width bits, width a power of two; every value of
\* _bech32_polymod is below 2^30 and is xored on 32 bits
RECURSIVE Xor(_, _, _)
Xor(a, b, width) ==
  IF width = 1
  THEN (a + b) % 2
  ELSE Xor(a % (2 ^ (width \div 2)), b % (2 ^ (width \div 2)), width \div 2)
       + (2 ^ (width \div 2))
         * Xor(a \div (2 ^ (width \div 2)), b \div (2 ^ (width \div 2)),
               width \div 2)

\* for i in range(5): if (top >> i) & 1: chk ^= generator[i]
RECURSIVE XorGenerators(_, _, _)
XorGenerators(chk, top, i) ==
  LET generator ==
        <<996825010, 642813549, 513874426, 1027748829, 705979059>>
  IN  IF i > 4 THEN chk
      ELSE XorGenerators(
             IF (top \div (2 ^ i)) % 2 = 1
             THEN Xor(chk, generator[i + 1], 32)
             ELSE chk,
             top, i + 1)

\* _bech32_polymod. Its loop is run over the values at places lo .. hi from
\* chk, at = <<chk, lo, hi>>: the run over lo .. hi is the run over its
\* first half followed by the run over its second half.
bech32_polymod(values) ==
  LET round(chk, value) ==
        XorGenerators(Xor((chk % (2 ^ 25)) * 32, value, 32),
                      chk \div (2 ^ 25), 0)
      loop[at \in Nat \X Nat \X Nat] ==
        IF at[2] > at[3]
        THEN at[1]
        ELSE IF at[2] = at[3]
        THEN round(at[1], values[at[2]])
        ELSE loop[<<loop[<<at[1], at[2], (at[2] + at[3]) \div 2>>],
                    ((at[2] + at[3]) \div 2) + 1, at[3]>>]
  IN  loop[<<1, 1, Len(values)>>]

bech32_hrp_expand(hrp) ==
  [i \in 1 .. Len(hrp) |-> hrp[i] \div 32] \o <<0>>
    \o [i \in 1 .. Len(hrp) |-> hrp[i] % 32]

bech32_verify_checksum(hrp, data) ==
  bech32_polymod(bech32_hrp_expand(hrp) \o data) = 1

NotDecoded == [ok |-> FALSE, hrp |-> <<>>, data |-> <<>>]

\* the part of _bech32_decode after the separator is found at place pos
DecodeAt(bech, pos) ==
  IF pos < 2 \/ pos + 6 > Len(bech) \/ Len(bech) > 90
  THEN NotDecoded
  ELSE IF \E i \in pos + 1 .. Len(bech) : charset_index(bech[i]) < 0
  THEN NotDecoded
  ELSE IF ~bech32_verify_checksum(
             SubSeq(bech, 1, pos - 1),
             [i \in 1 .. Len(bech) - pos |-> charset_index(bech[pos + i])])
  THEN NotDecoded
  ELSE [ok |-> TRUE,
        hrp |-> SubSeq(bech, 1, pos - 1),
        data |-> [i \in 1 .. Len(bech) - pos - 6 |->
                    charset_index(bech[pos + i])]]

bech32_decode(bech) ==
  IF bech = <<>> \/ \E i \in 1 .. Len(bech) : bech[i] < 33 \/ bech[i] > 126
  THEN NotDecoded
  ELSE DecodeAt(str_strip(bech), rfind(str_strip(bech), 49))

\* _convert_bits with pad = False; the result is <<>> for None and <<bytes>>
\* otherwise. Python's acc grows without bound; only its low 12 bits are
\* ever read when 5-bit groups become bytes, and the model keeps those.
\* The loop runs on the state st = [acc, bits, ret, none], none set by the
\* return None inside the loop; at = <<st, lo, hi>> as in bech32_polymod.
convert_bits(data, from_bits, to_bits) ==
  LET round(st, value) ==
        IF st.none \/ value < 0 \/ value \div (2 ^ from_bits) # 0
        THEN [st EXCEPT !.none = TRUE]
        ELSE IF st.bits + from_bits >= to_bits
        THEN [acc |-> ((st.acc * (2 ^ from_bits)) + value) % 4096,
              bits |-> st.bits + from_bits - to_bits,
              ret |-> Append(st.ret,
                             (((st.acc * (2 ^ from_bits)) + value)
                                \div (2 ^ (st.bits + from_bits - to_bits)))
                             % (2 ^ to_bits)),
              none |-> FALSE]
        ELSE [acc |-> ((st.acc * (2 ^ from_bits)) + value) % 4096,
              bits |-> st.bits + from_bits,
              ret |-> st.ret,
              none |-> FALSE]
      loop[at \in [acc : Nat, bits : Nat, ret : Seq(Nat), none : BOOLEAN]
                    \X Nat \X Nat] ==
        IF at[2] > at[3]
        THEN at[1]
        ELSE IF at[2] = at[3]
        THEN round(at[1], data[at[2]])
        ELSE loop[<<loop[<<at[1], at[2], (at[2] + at[3]) \div 2>>],
                    ((at[2] + at[3]) \div 2) + 1, at[3]>>]
      end(st) ==
        IF st.none
           \/ st.bits >= from_bits
           \/ (st.acc * (2 ^ (to_bits - st.bits))) % (2 ^ to_bits) # 0
        THEN <<>>
        ELSE <<st.ret>>
  IN  end(loop[<<[acc |-> 0, bits |-> 0, ret |-> <<>>, none |-> FALSE],
                 1, Len(data)>>])

\* bytes.hex()
hex(bytes) ==
  LET digits == <<48, 49, 50, 51, 52, 53, 54, 55, 56, 57,
                  97, 98, 99, 100, 101, 102>>
  IN  [i \in 1 .. 2 * Len(bytes) |->
         IF i % 2 = 1
         THEN digits[(bytes[(i + 1) \div 2] \div 16) + 1]
         ELSE digits[(bytes[i \div 2] % 16) + 1]]

\* _npub_to_hex once _bech32_decode has given d: None unless the prefix is
\* "npub" and _convert_bits gives bytes
HexOfDecoded(d) ==
  IF ~d.ok \/ d.hrp # <<110, 112, 117, 98>>
  THEN <<>>
  ELSE IF convert_bits(d.data, 5, 8) = <<>>
  THEN <<>>
  ELSE <<hex(convert_bits(d.data, 5, 8)[1])>>

\* _npub_to_hex on a string of character codes: <<>> for None, <<hex>> for
\* the hexadecimal text it returns
npub_decode(npub) == HexOfDecoded(bech32_decode(str_strip(npub)))

\* str.lower() on character codes
str_lower(chars) ==
  [i \in 1 .. Len(chars) |->
     IF chars[i] >= 65 /\ chars[i] <= 90 THEN chars[i] + 32 ELSE chars[i]]

\* _normalize_pubkeys on strings of character codes; an element of pubkeys
\* is [str, text], str FALSE for a value that is no str. normalize_pubkeys
\* above is the same loop on the key names the stores hold.
RECURSIVE normalize_pubkey_texts(_, _)
normalize_pubkey_texts(pubkeys, normalized) ==
  LET candidate == str_strip(Head(pubkeys).text)
      with_lower == IF Contains(normalized, str_lower(candidate))
                    THEN normalized
                    ELSE Append(normalized, str_lower(candidate))
      hex_key == npub_decode(candidate)
  IN  IF pubkeys = <<>> THEN normalized
      ELSE IF ~Head(pubkeys).str \/ candidate = <<>>
      THEN normalize_pubkey_texts(Tail(pubkeys), normalized)
      ELSE IF hex_key # <<>> /\ hex_key[1] # <<>>
              /\ ~Contains(with_lower, hex_key[1])
      THEN normalize_pubkey_texts(Tail(pubkeys),
                                  Append(with_lower, hex_key[1]))
      ELSE normalize_pubkey_texts(Tail(pubkeys), with_lower)

(* ------------------------------------------------------ demo filtering *)
NotADict == [dict |-> FALSE]

EmptyDict ==
  [dict |-> TRUE, public_key |-> None, seller |-> None, type |-> None,
   hashtag_demo |-> None, hashtags |-> <<>>, environment |-> None,
   title |-> None, id |-> None]

\* a variant of _has_demo_flag that compares the strings as they are stored
has_demo_flag_exact(data) ==
  IF ~data.dict THEN FALSE
  ELSE \/ data.hashtag_demo = "True"
       \/ \E i \in DOMAIN data.hashtags : data.hashtags[i] = "demo"
       \/ data.environment = "demo"

has_demo_flag(data) ==
  IF ~data.dict THEN FALSE
  ELSE \/ data.hashtag_demo = "True"
       \/ \E i \in DOMAIN data.hashtags : Lower(data.hashtags[i]) = "demo"
       \/ Lower(data.environment) = "demo"

should_exclude_seller(seller) ==
  has_demo_flag(seller.meta_data) \/ has_demo_flag(seller.filters)

(* ----------------------------------------------------------- the tables *)
\* vector_distance None (a NULL embedding, or a seller the vector search did
\* not return), and float("inf")
NoDist == -1

InfDist == 1000000

\* a row of the shared table settings.db_table, which holds seller profiles
\* and classified-listing documents; dist is the cosine distance of its
\* embedding to the query embedding of the requests, times 100
Row(id, meta, filters, content, dist) ==
  [id |-> id, name |-> None, meta_data |-> meta, filters |-> filters,
   content |-> content, dist |-> dist]

RowPool ==
  << Row("s1", [EmptyDict EXCEPT !.public_key = "h1"], NotADict, NotADict, 0),
     Row("s2", [EmptyDict EXCEPT !.public_key = "n1"], EmptyDict, NotADict, NoDist),
     Row("s3", [EmptyDict EXCEPT !.public_key = "h2", !.hashtag_demo = "False",
                                 !.environment = "production"],
         NotADict, NotADict, 5),
     Row("s4", [EmptyDict EXCEPT !.public_key = "h2",
                                 !.hashtags = <<"local", "Demo">>],
         NotADict, NotADict, 10),
     Row("s5", EmptyDict, [EmptyDict EXCEPT !.environment = "DEMO"],
         [EmptyDict EXCEPT !.public_key = "n2"], 15),
     Row("s6", NotADict, NotADict, NotADict, NoDist),
     Row("d1", [EmptyDict EXCEPT !.type = "classified_listing", !.seller = "h1"],
         NotADict,
         [EmptyDict EXCEPT !.seller = "h1", !.title = "q1", !.id = "d1"], 30),
     Row("d2", [EmptyDict EXCEPT !.type = "classified_listing", !.seller = "n1",
                                 !.hashtag_demo = "True"],
         NotADict,
         [EmptyDict EXCEPT !.title = "q2"], 40) >>

\* the texts a caller may pass as query: absent, blank, one word, two words
Queries == {None, " ", "q1", "q1 q2"}

\* str.strip() on the queries
Strip(text) == IF text = " " THEN "" ELSE text

\* `needle in text` (Python) and `text LIKE %needle%` (SQL) on the texts of
\* the model; None is a text that is absent
Substr(needle, text) ==
  /\ text # None
  /\ \/ needle = ""
     \/ needle = text
     \/ text = "q1 q2" /\ needle \in {"q1", "q2", " "}

\* _tokenize_query
tokenize_query(query) ==
  CASE query = "q1" -> <<"q1">>
    [] query = "q2" -> <<"q2">>
    [] query = "q1 q2" -> <<"q1", "q2">>
    [] OTHER -> <<>>

\* the words of the model that occur in a text
TokensIn(text) == {t \in {"q1", "q2"} : Substr(t, text)}

\* a row of the primary listings table settings.listings_table; tags holds
\* the values of its "title" and "published_at" tags and the text of its
\* tags that no listing field takes up
ListingRow(event_id, pubkey, created_at, title, published, other) ==
  [event_id |-> event_id, pubkey |-> pubkey, kind |-> 30402,
   created_at |-> created_at,
   tags |-> [title |-> title, published_at |-> published, other |-> other],
   content |-> None]

ListingPool ==
  << ListingRow("e1", "h1", 100, "q1", None, None),
     ListingRow("e2", "n1", 200, "q1 q2", None, None),
     ListingRow("e3", "h2", 50, "q2", "300", "q1"),
     ListingRow("e4", "h2", 60, None, None, "q1") >>

VARIABLES
  rows,        \* the shared table: the indices of RowPool it holds
  listings,    \* the primary listings table: the indices of ListingPool
  exists,      \* whether the primary listings table exists in the database
  available,   \* _LISTINGS_TABLE_AVAILABLE
  call,        \* the call in progress: its operation and arguments (and,
               \* for search_sellers, len(ranked_sellers) before the cut)
  result,      \* what the last call returned, or that it raised
  log,         \* the database queries and rollbacks of the last call
  tasks,       \* the coroutines of the listing store running side by side in
               \* the event loop, each at its await
  failed,      \* history: a primary-table statement has failed because the
               \* relation does not exist
  pool,        \* the NostrRelayPool: its cache, its hit and miss counters,
               \* and the time datetime.now() gives
  notices      \* how many times logger.info("listings_table_unavailable
               \* ...") has been written

vars ==
  <<rows, listings, exists, available, call, result, log, tasks, failed,
    pool, notices>>

\* NostrRelayPool.__init__: an empty cache and both counters at zero
NewPool == [cache |-> {}, cache_hits |-> 0, cache_misses |-> 0, now |-> 0]

(* -------------------------------------------------------- listing store *)
\* The state a call threads through its database work: the availability
\* flag, the statements issued so far, whether an exception is propagating,
\* and the environment (the tables, and which statements fail).
Ctx(faults) ==
  [available |-> available, log |-> <<>>, raised |-> FALSE,
   exists |-> exists, faults |-> faults, rows |-> rows, listings |-> listings,
   notices |-> notices]

PrimaryQueries == {"primary_keys", "primary_text"}

\* how session.execute ends for the next statement
Outcome(ctx, q) ==
  IF q \in PrimaryQueries /\ ~ctx.exists THEN "missing"
  ELSE IF q \in ctx.faults THEN "error"
  ELSE "ok"

Execute(ctx, q) ==
  [ctx EXCEPT !.log = Append(@, [q |-> q, out |-> Outcome(ctx, q)])]

\* a variant of the except branch that does not roll back
skip_rollback(ctx) == ctx

Rollback(ctx) ==
  [ctx EXCEPT !.log = Append(@, [q |-> "rollback", out |-> "ok"])]

Raise(ctx) == [ctx EXCEPT !.raised = TRUE]

\* three variants of _disable_listings_table: one that leaves the flag
\* alone, one that flips it, one without the test of the flag
keep_listings_table(ctx) == ctx

toggle_listings_table(ctx) == [ctx EXCEPT !.available = ~@]

disable_listings_table_untested(ctx) ==
  [ctx EXCEPT !.available = FALSE, !.notices = @ + 1]

\* _disable_listings_table: no await between the test of the flag, the
\* assignment and logger.info, so the event loop runs them as one step
disable_listings_table(ctx) ==
  IF ctx.available
  THEN [ctx EXCEPT !.available = FALSE, !.notices = @ + 1]
  ELSE ctx

\* a listings map: every key string to its listings, <<>> for a key the
\* dict does not hold (no key of a map of the code holds an empty list)
EmptyMap == [k \in KeyStrings |-> <<>>]

MapIsEmpty(m) == \A k \in KeyStrings : m[k] = <<>>

\* published_at None, and `published_at or zero_point`
NoTime == -1

OrZeroPoint(published_at) == IF published_at = NoTime THEN 0 ELSE published_at

\* int() of a tag value made of digits
ParseDigits(text) == CASE text = "300" -> 300 [] OTHER -> 0

IsDigits(text) == text \in {"300"}

\* _parse_published_at; created_at is a NOT NULL column
parse_published_at(tags, created_at) ==
  IF tags.published_at # None /\ IsDigits(tags.published_at)
  THEN ParseDigits(tags.published_at)
  ELSE created_at

\* _parse_listing, as a sequence: <<>> for None (no title), else <<listing>>
parse_listing(row) ==
  IF row.tags.title = None THEN <<>>
  ELSE << [id |-> row.event_id,
           published_at |-> parse_published_at(row.tags, row.created_at),
           text |-> TokensIn(row.tags.title) \cup TokensIn(row.content)] >>

\* _parse_classified_listing_row, as a sequence: <<>> for (None, None), when
\* the row is no classified listing, names no seller or has no title, else
\* one record of the seller_pubkey and the listing
parse_classified_listing_row(row) ==
  LET meta == IF row.meta_data.dict THEN row.meta_data ELSE EmptyDict
      content == IF row.content.dict THEN row.content ELSE EmptyDict
      meta_type == IF meta.type = None THEN content.type ELSE meta.type
      seller_pubkey == IF content.seller # None THEN content.seller
                       ELSE meta.seller
      title == IF content.title # None THEN content.title ELSE row.name
      identifier == IF content.id # None THEN content.id ELSE row.id
  IN IF meta_type # "classified_listing" \/ seller_pubkey = None \/ title = None
     THEN <<>>
     ELSE << [pubkey |-> seller_pubkey,
              listing |-> [id |-> identifier, published_at |-> NoTime,
                           text |-> TokensIn(title) \cup TokensIn(identifier)]] >>

\* the targets a listing of pubkey is stored under
StoreKeys(pubkey) ==
  IF npub_to_hex(pubkey) # None THEN {pubkey, npub_to_hex(pubkey)} ELSE {pubkey}

SortNewestFirst(entries) ==
  StableSort(entries, [i \in DOMAIN entries |-> 0 - OrZeroPoint(entries[i].published_at)])

\* a variant of the fallback that asks the secondary table nothing
no_fallback(ctx, public_keys) == [ctx |-> ctx, map |-> EmptyMap]

get_classified_listings_from_fallback(ctx, public_keys) ==
  IF public_keys = <<>> THEN [ctx |-> ctx, map |-> EmptyMap]
  ELSE
    LET c1 == Execute(ctx, "fallback_keys")
        out == Outcome(ctx, "fallback_keys")
        hits == SelectSeq(SetToSeq(ctx.rows), LAMBDA i :
                  /\ RowPool[i].meta_data.dict
                  /\ RowPool[i].meta_data.type = "classified_listing"
                  /\ Contains(public_keys, RowPool[i].meta_data.seller))
        kept == Flatten([n \in DOMAIN hits |->
                           parse_classified_listing_row(RowPool[hits[n]])])
        bucket(k) ==
          LET mine == SelectSeq(kept, LAMBDA p : k \in StoreKeys(p.pubkey))
          IN [n \in DOMAIN mine |-> mine[n].listing]
    IN IF out # "ok" THEN [ctx |-> Raise(c1), map |-> EmptyMap]
       ELSE [ctx |-> c1, map |-> [k \in KeyStrings |-> bucket(k)]]

\* the map the primary table gives for public_keys
PrimaryListingsMap(ctx, public_keys) ==
  LET hits == SelectSeq(SetToSeq(ctx.listings), LAMBDA i :
                /\ ListingPool[i].kind = 30402
                /\ Contains(public_keys, ListingPool[i].pubkey))
      bucket(k) ==
        LET mine == SelectSeq(hits, LAMBDA i : k \in StoreKeys(ListingPool[i].pubkey))
            entries == Flatten([n \in DOMAIN mine |->
                                  parse_listing(ListingPool[mine[n]])])
            max_items == Max(ListingsPerSeller, 0)
        IN IF max_items # 0 THEN Take(SortNewestFirst(entries), max_items)
           ELSE entries
  IN [k \in KeyStrings |-> bucket(k)]

\* a variant of get_listings_by_public_keys that knows the primary table only
primary_listings_only(ctx, public_keys) ==
  IF public_keys = <<>> \/ ~ctx.available THEN [ctx |-> ctx, map |-> EmptyMap]
  ELSE LET out == Outcome(ctx, "primary_keys")
           c1 == Execute(ctx, "primary_keys")
       IN IF out = "missing"
          THEN [ctx |-> Rollback(disable_listings_table(c1)), map |-> EmptyMap]
          ELSE IF out = "error" THEN [ctx |-> Rollback(c1), map |-> EmptyMap]
          ELSE [ctx |-> c1, map |-> PrimaryListingsMap(ctx, public_keys)]

\* a variant of get_listings_by_public_keys that asks the secondary table
\* as well and puts its listings after those of the primary table
both_sources(c1, out, listings_map, public_keys) ==
  LET after == get_classified_listings_from_fallback(
                 IF out = "missing" THEN Rollback(disable_listings_table(c1))
                 ELSE IF out = "error" THEN Rollback(c1)
                 ELSE c1,
                 public_keys)
  IN  [ctx |-> after.ctx,
       map |-> [k \in KeyStrings |-> listings_map[k] \o after.map[k]]]

\* get_listings_by_public_keys after the primary statement: c1 and out are
\* the session and the way the statement ended ("skipped" with the flag off)
PrimaryOrFallback(c1, out, listings_map, public_keys) ==
  IF out = "ok" /\ ~MapIsEmpty(listings_map)
  THEN [ctx |-> c1, map |-> listings_map]
  ELSE get_classified_listings_from_fallback(
         IF out = "missing" THEN Rollback(disable_listings_table(c1))
         ELSE IF out = "error" THEN Rollback(c1)
         ELSE c1,
         public_keys)

get_listings_by_public_keys(ctx, public_keys) ==
  IF public_keys = <<>> THEN [ctx |-> ctx, map |-> EmptyMap]
  ELSE PrimaryOrFallback(
         IF ctx.available THEN Execute(ctx, "primary_keys") ELSE ctx,
         IF ctx.available THEN Outcome(ctx, "primary_keys") ELSE "skipped",
         IF ctx.available THEN PrimaryListingsMap(ctx, public_keys) ELSE EmptyMap,
         public_keys)

\* _listing_match_score: the tokens found in the listing's text fields
listing_match_score(listing, tokens) ==
  Cardinality({i \in DOMAIN tokens : tokens[i] \in listing.text})

\* a variant of the sort that leaves the entries where they are
KeepOrder(matches) == matches

\* matches.sort(key=(score, published_at), reverse=True): a reversed sort
\* keeps equal entries in their original order
SortMatches(matches) ==
  StableSort(matches, [i \in DOMAIN matches |->
    0 - (matches[i].score * 1000 + OrZeroPoint(matches[i].listing.published_at))])

\* a variant of the scoring loop that keeps the rows that score 0 as well
ScoreAll(entries, tokens) ==
  SortMatches([i \in DOMAIN entries |->
                 [pubkey |-> entries[i].pubkey, listing |-> entries[i].listing,
                  score |-> 10 * listing_match_score(entries[i].listing, tokens)]])

\* the matches both text searches build from the parsed entries they fetched
ScoreEntries(entries, tokens) ==
  LET scored == [i \in DOMAIN entries |->
                   [pubkey |-> entries[i].pubkey, listing |-> entries[i].listing,
                    score |-> 10 * listing_match_score(entries[i].listing, tokens)]]
      positive == SelectSeq(scored, LAMBDA m : m.score > 0)
      zeroed == [i \in DOMAIN entries |->
                   [pubkey |-> entries[i].pubkey, listing |-> entries[i].listing,
                    score |-> 0]]
      matches == IF tokens # <<>> THEN (IF positive # <<>> THEN positive ELSE zeroed)
                 ELSE zeroed
  IN SortMatches(matches)

\* the WHERE clause of both text searches over the text columns of a row
TextConditions(query, columns) ==
  LET tokens == tokenize_query(query)
      pattern == Strip(query)
  IN \E c \in columns :
       \/ Substr(pattern, c)
       \/ \E i \in DOMAIN tokens : Substr(tokens[i], c)

\* the rows the secondary text search fetches, parsed
FallbackTextEntries(ctx, query, limit) ==
  LET hits == SelectSeq(SetToSeq(ctx.rows), LAMBDA i :
                /\ RowPool[i].meta_data.dict
                /\ RowPool[i].meta_data.type = "classified_listing"
                /\ TextConditions(query,
                     {RowPool[i].name} \cup
                     (IF RowPool[i].content.dict
                      THEN {RowPool[i].content.title, RowPool[i].content.seller,
                            RowPool[i].content.id}
                      ELSE {})))
      fetched == Take(hits, Max(limit, 1) * 4)
  IN Flatten([n \in DOMAIN fetched |->
                parse_classified_listing_row(RowPool[fetched[n]])])

search_classified_listings_fallback(ctx, query, limit) ==
  LET out == Outcome(ctx, "fallback_text")
      c1 == Execute(ctx, "fallback_text")
  IN IF out # "ok" THEN [ctx |-> Raise(c1), matches |-> <<>>]
     ELSE [ctx |-> c1,
           matches |-> Take(ScoreEntries(FallbackTextEntries(ctx, query, limit),
                                         tokenize_query(query)),
                            limit)]

\* the rows the primary text search fetches: newest first, four times limit
PrimaryTextEntries(ctx, query, limit) ==
  LET hits == SelectSeq(SetToSeq(ctx.listings), LAMBDA i :
                /\ ListingPool[i].kind = 30402
                /\ TextConditions(query,
                     {ListingPool[i].content, ListingPool[i].tags.title,
                      ListingPool[i].tags.other}))
      ordered == StableSort(hits, [n \in DOMAIN hits |->
                                     0 - ListingPool[hits[n]].created_at])
      fetched == Take(ordered, Max(limit, 1) * 4)
      entry(i) == LET l == parse_listing(ListingPool[i])
                  IN IF l = <<>> THEN <<>>
                     ELSE << [pubkey |-> ListingPool[i].pubkey, listing |-> l[1]] >>
  IN Flatten([n \in DOMAIN fetched |-> entry(fetched[n])])

\* search_listings_by_text after the primary statement
PrimaryOrFallbackText(c1, out, matches, query, limit) ==
  IF out = "ok" /\ matches # <<>>
  THEN [ctx |-> c1, matches |-> Take(matches, limit)]
  ELSE search_classified_listings_fallback(
         IF out = "missing" THEN Rollback(disable_listings_table(c1))
         ELSE IF out = "error" THEN Rollback(c1)
         ELSE c1,
         Strip(query), limit)

search_listings_by_text(ctx, query, limit) ==
  IF query = None \/ Strip(query) = "" THEN [ctx |-> ctx, matches |-> <<>>]
  ELSE PrimaryOrFallbackText(
         IF ctx.available THEN Execute(ctx, "primary_text") ELSE ctx,
         IF ctx.available THEN Outcome(ctx, "primary_text") ELSE "skipped",
         IF ctx.available
         THEN ScoreEntries(PrimaryTextEntries(ctx, query, limit), tokenize_query(query))
         ELSE <<>>,
         query, limit)

\* a variant of the seen_ids loop that skips nothing
KeepDuplicates(items, seen) == items

\* filter_and_rank_listings: the trimmed listings and the best score
RECURSIVE DedupById(_, _)
DedupById(items, seen) ==
  IF items = <<>> THEN <<>>
  ELSE IF Head(items).id # None /\ Head(items).id \in seen
       THEN DedupById(Tail(items), seen)
       ELSE <<Head(items)>> \o DedupById(Tail(items), seen \cup {Head(items).id})

\* a variant of slice_size that keeps every entry
slice_whole(max_items, n) == n

\* slice_size = max_items if max_items else len(scored_entries)
slice_size(max_items, n) == IF max_items # 0 THEN max_items ELSE n

filter_and_rank_listings(items, query, max_items) ==
  IF items = <<>> \/ max_items <= 0 THEN [listings |-> <<>>, best |-> 0]
  ELSE
    LET tokens == tokenize_query(query)
        unique == DedupById(items, {})
        scoredAll == [i \in DOMAIN unique |->
                        [score |-> listing_match_score(unique[i], tokens),
                         listing |-> unique[i]]]
        matching == IF tokens # <<>>
                    THEN SelectSeq(scoredAll, LAMBDA e : e.score # 0)
                    ELSE scoredAll
        scored_entries ==
          IF matching # <<>> THEN matching
          ELSE [i \in DOMAIN unique |-> [score |-> 0, listing |-> unique[i]]]
        sorted == SortMatches(scored_entries)
        trimmed == Take(sorted, slice_size(max_items, Len(sorted)))
    IN [listings |-> [i \in DOMAIN trimmed |-> trimmed[i].listing],
        best |-> sorted[1].score]

(* -------------------------------------------------- seller search engine *)
\* _extract_seller_pubkeys
extract_seller_pubkeys(seller) ==
  LET fromDict(d) == IF d.dict THEN <<d.public_key, d.seller>> ELSE <<>>
  IN normalize_pubkeys(fromDict(seller.meta_data) \o fromDict(seller.content))

\* dict(row) of a row of the shared table, with the fields search_sellers
\* later sets at their defaults
SellerOf(row, distance) ==
  [id |-> row.id, name |-> row.name, meta_data |-> row.meta_data,
   filters |-> row.filters, content |-> row.content,
   normalized_pubkeys |-> extract_seller_pubkeys(row),
   vector_distance |-> distance, score |-> 0, listings |-> <<>>]

\* list(dict.fromkeys(...)) of the normalized keys of the sellers, in order
RECURSIVE Dedup(_)
Dedup(seq) ==
  IF seq = <<>> THEN <<>>
  ELSE LET init == Dedup(SubSeq(seq, 1, Len(seq) - 1))
       IN IF Contains(init, seq[Len(seq)]) THEN init
          ELSE Append(init, seq[Len(seq)])

KeysOf(sellers) ==
  Dedup(Flatten([i \in DOMAIN sellers |-> sellers[i].normalized_pubkeys]))

\* seller_pubkey_map over a list of sellers: each key to the index of the
\* last seller holding it, 0 for a key the dict does not hold
PubkeyMap(sellers) ==
  [k \in KeyStrings |->
     LET holders == {i \in DOMAIN sellers : Contains(sellers[i].normalized_pubkeys, k)}
     IN IF holders = {} THEN 0 ELSE CHOOSE i \in holders : \A j \in holders : j <= i]

\* the loop over the vector rows: the rows the demo filter keeps, up to limit
RECURSIVE CollectSurvivors(_, _, _)
CollectSurvivors(vrows, sellers, limit) ==
  IF vrows = <<>> THEN sellers
  ELSE LET row == RowPool[Head(vrows)]
       IN IF should_exclude_seller(row)
          THEN CollectSurvivors(Tail(vrows), sellers, limit)
          ELSE LET grown == Append(sellers, SellerOf(row, row.dist))
               IN IF Len(grown) >= limit THEN grown
                  ELSE CollectSurvivors(Tail(vrows), grown, limit)

\* the rows of the vector query: ascending distance, max(limit * 3, limit) rows
VectorRows(ctx, limit) ==
  LET all == SetToSeq(ctx.rows)
      \* ORDER BY distance ASC puts the NULL distances last
      ordered == StableSort(all, [n \in DOMAIN all |->
                   IF RowPool[all[n]].dist = NoDist THEN InfDist
                   ELSE RowPool[all[n]].dist])
  IN Take(ordered, Max(limit * 3, limit))

\* _fetch_sellers_by_public_keys, as the list of the distinct values of the
\* seller_map dict in the order of their first key
fetch_sellers_by_public_keys(ctx, public_keys) ==
  LET unique_pubkeys == normalize_pubkeys(public_keys)
      out == Outcome(ctx, "seller_lookup")
      c1 == Execute(ctx, "seller_lookup")
      hits == SelectSeq(SetToSeq(ctx.rows), LAMBDA i :
                /\ RowPool[i].meta_data.dict
                /\ Contains(unique_pubkeys, RowPool[i].meta_data.public_key))
      kept == SelectSeq(hits, LAMBDA i :
                /\ ~should_exclude_seller(RowPool[i])
                /\ extract_seller_pubkeys(RowPool[i]) # <<>>)
      found == [n \in DOMAIN kept |-> SellerOf(RowPool[kept[n]], NoDist)]
      \* seller_map[key] = seller: the last row holding a key keeps it, at
      \* the place the key was first inserted
      keyOrder == KeysOf(found)
      owner == PubkeyMap(found)
      values == Dedup([n \in DOMAIN keyOrder |-> owner[keyOrder[n]]])
  IN IF public_keys = <<>> \/ unique_pubkeys = <<>>
     THEN [ctx |-> ctx, sellers |-> <<>>]
     ELSE IF out # "ok" THEN [ctx |-> Raise(c1), sellers |-> <<>>]
     ELSE [ctx |-> c1, sellers |-> [n \in DOMAIN values |-> found[values[n]]]]

\* the keys of the listing matches no known seller holds
RECURSIVE MissingPubkeys(_, _, _)
MissingPubkeys(matches, known, missing) ==
  IF matches = <<>> THEN missing
  ELSE LET pubkey == Head(matches).pubkey
           normalized == normalize_pubkeys(<<pubkey>>)
           candidate_keys == IF normalized # <<>> THEN normalized ELSE <<pubkey>>
           fresh == SelectSeq(candidate_keys, LAMBDA c :
                      known[c] = 0 /\ ~Contains(missing, c))
       IN MissingPubkeys(Tail(matches), known, missing \o Dedup(fresh))

NormalizedPubkey(match) ==
  LET normalized == normalize_pubkeys(<<match.pubkey>>)
  IN IF normalized # <<>> THEN normalized[1] ELSE match.pubkey

\* `x or float("inf")` of a vector_distance
OrInf(distance) == IF distance = NoDist \/ distance = 0 THEN InfDist ELSE distance

\* the merge of a seller into the record merged_sellers holds for its key
MergeInto(existing, seller) ==
  [existing EXCEPT
     !.normalized_pubkeys =
        Dedup(existing.normalized_pubkeys \o seller.normalized_pubkeys),
     !.vector_distance = Min(OrInf(existing.vector_distance),
                             OrInf(seller.vector_distance)),
     !.score = Max(existing.score, seller.score)]

\* the merge loop: merged_sellers as the list of its keys and of its values
RECURSIVE MergeSellers(_, _, _)
MergeSellers(sellers, keys, merged) ==
  IF sellers = <<>> THEN merged
  ELSE LET seller == Head(sellers)
           by_key == select_canonical_key(seller.normalized_pubkeys)
           canonical_key == IF by_key # None THEN by_key ELSE Lower(seller.id)
           at == CHOOSE i \in DOMAIN keys : keys[i] = canonical_key
       IN IF Contains(keys, canonical_key)
          THEN MergeSellers(Tail(sellers), keys,
                            [merged EXCEPT ![at] = MergeInto(merged[at], seller)])
          ELSE MergeSellers(Tail(sellers), Append(keys, canonical_key),
                            Append(merged, seller))

\* the loop over the listing matches after the merge: the listing joins the
\* bucket of its key, the seller of the key takes the larger score
RECURSIVE ApplyMatches(_, _, _)
ApplyMatches(matches, sellers, listings_map) ==
  IF matches = <<>> THEN [sellers |-> sellers, map |-> listings_map]
  ELSE LET match == Head(matches)
           pubkey == NormalizedPubkey(match)
           bucket == listings_map[pubkey]
           grown == IF \E i \in DOMAIN bucket : bucket[i].id = match.listing.id
                    THEN bucket ELSE Append(bucket, match.listing)
           at == PubkeyMap(sellers)[pubkey]
           scored == IF at = 0 THEN sellers
                     ELSE [sellers EXCEPT ![at].score = Max(@, match.score)]
       IN ApplyMatches(Tail(matches), scored,
                       [listings_map EXCEPT ![pubkey] = grown])

\* a variant of _sort_key that leaves the score out of the first group
sort_key_raw(item) ==
  IF item.vector_distance # NoDist THEN item.vector_distance
  ELSE 2 * InfDist - item.score

\* _sort_key, the pair (group, value) as one integer
sort_key(item) ==
  IF item.vector_distance # NoDist
  THEN (IF item.vector_distance = InfDist THEN InfDist
        ELSE item.vector_distance - Min(item.score, 10))
  ELSE 2 * InfDist - item.score

\* the ranking loop for one seller
RankSeller(seller, listings_map, query_text) ==
  LET keys == seller.normalized_pubkeys
      collected == DedupById(Flatten([n \in DOMAIN keys |-> listings_map[keys[n]]]), {})
      ranked == filter_and_rank_listings(collected, query_text, ListingsPerSeller)
      boosted_score == Min(10, 4 + 2 * Min(ranked.best, 4))
  IN [seller EXCEPT
        !.listings = ranked.listings,
        !.score = IF seller.vector_distance = NoDist /\ ranked.best > 0
                  THEN Max(@, boosted_score) ELSE @]

\* the end of the query_text branch: the merge by canonical key and the loop
\* over the listing matches
MergeAndApply(more, sellers1, listing_matches, map0) ==
  [ctx |-> more.ctx,
   found |-> ApplyMatches(
               listing_matches,
               MergeSellers(sellers1, <<>>, <<>>),
               [k \in KeyStrings |->
                  IF more.map[k] # <<>> THEN more.map[k] ELSE map0[k]])]

\* the listings of the keys listings_map does not hold yet
FetchMissingListings(ctx, sellers1, listing_matches, map0) ==
  LET missing_listing_pubkeys ==
        SelectSeq(KeysOf(sellers1), LAMBDA k : map0[k] = <<>>)
  IN MergeAndApply(
       IF missing_listing_pubkeys # <<>> /\ ~ctx.raised
       THEN get_listings_by_public_keys(ctx, missing_listing_pubkeys)
       ELSE [ctx |-> ctx, map |-> EmptyMap],
       sellers1, listing_matches, map0)

\* the sellers found by public key join the list
AddExtraSellers(fetched, sellers0, listing_matches, map0) ==
  FetchMissingListings(
    fetched.ctx,
    sellers0 \o SelectSeq(fetched.sellers, LAMBDA x : ~Contains(sellers0, x)),
    listing_matches, map0)

\* the lookup of the sellers of the listing matches no known seller holds
LookupMissingSellers(searched, sellers0, map0) ==
  LET missing_pubkeys == MissingPubkeys(searched.matches, PubkeyMap(sellers0), <<>>)
  IN AddExtraSellers(
       IF missing_pubkeys # <<>> /\ ~searched.ctx.raised
       THEN fetch_sellers_by_public_keys(searched.ctx, missing_pubkeys)
       ELSE [ctx |-> searched.ctx, sellers |-> <<>>],
       sellers0, searched.matches, map0)

\* the part of search_sellers that runs when query_text is true
TextDiscovery(ctx0, sellers0, map0, limit, query_text) ==
  LookupMissingSellers(
    search_listings_by_text(
      ctx0, query_text,
      Max(limit, 1) * Max(IF ListingsPerSeller # 0 THEN ListingsPerSeller ELSE 1, 1)),
    sellers0, map0)

\* a variant of the last line that returns ranked_sellers whole
KeepAll(ranked_sellers, limit) == ranked_sellers

\* return ranked_sellers[:limit]
Truncate(ranked_sellers, limit) == Take(ranked_sellers, limit)

\* ranked_sellers.sort(key=_sort_key)
SortRanked(ranked_sellers) ==
  StableSort(ranked_sellers,
             [i \in DOMAIN ranked_sellers |-> sort_key(ranked_sellers[i])])

Answer(ctx, sorted, limit) ==
  [ctx |-> ctx, sellers |-> Truncate(sorted, limit), ranked |-> Len(sorted)]

\* the ranking loop, the sort and the slice
RankAll(ctx, found, limit, query_text) ==
  IF ctx.raised THEN [ctx |-> ctx, sellers |-> <<>>, ranked |-> 0]
  ELSE Answer(ctx,
              SortRanked([i \in DOMAIN found.sellers |->
                            RankSeller(found.sellers[i], found.map, query_text)]),
              limit)

Discovered(r, limit, query_text) == RankAll(r.ctx, r.found, limit, query_text)

\* search_sellers from the first fetch of listings on
WithListings(first, sellers0, limit, query_text) ==
  IF query_text # None /\ query_text # "" /\ ~first.ctx.raised
  THEN Discovered(TextDiscovery(first.ctx, sellers0, first.map, limit, query_text),
                  limit, query_text)
  ELSE RankAll(first.ctx, [sellers |-> sellers0, map |-> first.map],
               limit, query_text)

WithSurvivors(c1, sellers0, limit, query_text) ==
  WithListings(get_listings_by_public_keys(c1, KeysOf(sellers0)),
               sellers0, limit, query_text)

search_sellers(ctx0, limit, query_text) ==
  IF Outcome(ctx0, "vector") # "ok"
  THEN [ctx |-> Raise(Execute(ctx0, "vector")), sellers |-> <<>>, ranked |-> 0]
  ELSE WithSurvivors(Execute(ctx0, "vector"),
                     CollectSurvivors(VectorRows(ctx0, limit), <<>>, limit),
                     limit, query_text)

\* get_seller_by_id: the seller as a one-element list, <<>> for None
SellerWithListings(got, row, pubkey) ==
  IF got.ctx.raised THEN [ctx |-> got.ctx, sellers |-> <<>>]
  ELSE [ctx |-> got.ctx,
        sellers |-> << [SellerOf(row, NoDist) EXCEPT
                          !.normalized_pubkeys = <<>>,
                          !.listings = IF pubkey # None THEN got.map[pubkey]
                                       ELSE <<>>] >>]

SellerRow(c1, row, pubkey) ==
  IF should_exclude_seller(row) THEN [ctx |-> c1, sellers |-> <<>>]
  ELSE SellerWithListings(
         IF pubkey # None THEN get_listings_by_public_keys(c1, <<pubkey>>)
         ELSE [ctx |-> c1, map |-> EmptyMap],
         row, pubkey)

get_seller_by_id(ctx0, seller_id) ==
  LET c1 == Execute(ctx0, "seller_by_id")
      hits == SelectSeq(SetToSeq(ctx0.rows), LAMBDA i : RowPool[i].id = seller_id)
  IN IF Outcome(ctx0, "seller_by_id") # "ok" THEN [ctx |-> Raise(c1), sellers |-> <<>>]
     ELSE IF hits = <<>> THEN [ctx |-> c1, sellers |-> <<>>]
     ELSE SellerRow(c1, RowPool[hits[1]],
                    IF RowPool[hits[1]].meta_data.dict
                    THEN RowPool[hits[1]].meta_data.public_key ELSE None)

\* a coroutine of the listing store between two awaits
Tasks == 1 .. MaxTasks

IdleTask ==
  [pc |-> "idle", op |-> "none", after |-> FALSE, primary |-> FALSE,
   secondary |-> FALSE, outcome |-> "none"]

Init ==
  /\ rows \in {S \in SUBSET DOMAIN RowPool : Cardinality(S) <= MaxRows}
  /\ exists \in BOOLEAN
  /\ listings \in {S \in SUBSET DOMAIN ListingPool :
                     /\ Cardinality(S) <= MaxListings
                     /\ ~exists => S = {}}
  /\ available = TRUE
  /\ call = [op |-> "none"]
  /\ result = [status |-> "none"]
  /\ log = <<>>
  /\ tasks = [t \in Tasks |-> IdleTask]
  /\ failed = FALSE
  /\ pool = NewPool
  /\ notices = 0

\* the statements that fail with a transient database error during a call:
\* any of the primary-table statements, or one of the others
OtherQueries == {"vector", "fallback_keys", "fallback_text", "seller_lookup",
                 "seller_by_id"}

FaultSets == (SUBSET PrimaryQueries) \cup {{q} : q \in OtherQueries}

Finish(ctx, value) ==
  /\ result' = IF ctx.raised THEN [status |-> "raised", error |-> "SQLAlchemyError"]
               ELSE [status |-> "ok", value |-> value]
  /\ available' = ctx.available
  /\ log' = ctx.log
  /\ notices' = ctx.notices
  /\ UNCHANGED <<rows, listings, exists, pool, tasks, failed>>

SearchSellersEnds(r, limit, query_text) ==
  /\ call' = [op |-> "search_sellers", limit |-> limit,
              query_text |-> query_text, show_demo_only |-> None,
              ranked |-> r.ranked]
  /\ Finish(r.ctx, r.sellers)

GetSellerByIdEnds(r, seller_id) ==
  /\ call' = [op |-> "get_seller_by_id", seller_id |-> seller_id]
  /\ Finish(r.ctx, r.sellers)

GetListingsByPublicKeysEnds(r, public_keys) ==
  /\ call' = [op |-> "get_listings_by_public_keys", public_keys |-> public_keys]
  /\ Finish(r.ctx, r.map)

SearchListingsByTextEnds(r, query, limit) ==
  /\ call' = [op |-> "search_listings_by_text", query |-> query, limit |-> limit]
  /\ Finish(r.ctx, r.matches)

\* a call of search_sellers(session, query_embedding, limit, query_text)
SearchSellers ==
  /\ call.op = "none"
  /\ \E limit \in 0 .. MaxLimit, query_text \in Queries, faults \in FaultSets :
       SearchSellersEnds(search_sellers(Ctx(faults), limit, query_text),
                         limit, query_text)

\* a call of search_sellers(..., show_demo_only=...), as api/search.py and
\* check_demo_restaurants.py make it: the function has no such parameter
SearchSellersDemoOnly ==
  /\ call.op = "none"
  /\ \E limit \in 0 .. MaxLimit, query_text \in Queries,
        show_demo_only \in {"True", "False"} :
       /\ call' = [op |-> "search_sellers", limit |-> limit,
                   query_text |-> query_text, show_demo_only |-> show_demo_only,
                   ranked |-> 0]
       /\ result' = [status |-> "raised", error |-> "TypeError"]
       /\ UNCHANGED <<rows, listings, exists, pool, notices, available, log,
                      tasks, failed>>

\* a call of get_seller_by_id(session, seller_id)
GetSellerById ==
  /\ call.op = "none"
  /\ \E seller_id \in {RowPool[i].id : i \in DOMAIN RowPool}, faults \in FaultSets :
       GetSellerByIdEnds(get_seller_by_id(Ctx(faults), seller_id), seller_id)

\* a direct call of get_listings_by_public_keys(session, public_keys)
GetListingsByPublicKeys ==
  /\ call.op = "none"
  /\ \E public_keys \in {<<>>, <<"h1">>, <<"n1", "h1">>, <<"h2">>},
        faults \in FaultSets :
       GetListingsByPublicKeysEnds(
         get_listings_by_public_keys(Ctx(faults), public_keys), public_keys)

\* a direct call of search_listings_by_text(session, query, limit)
SearchListingsByText ==
  /\ call.op = "none"
  /\ \E query \in Queries, limit \in 0 .. MaxLimit, faults \in FaultSets :
       SearchListingsByTextEnds(
         search_listings_by_text(Ctx(faults), query, limit), query, limit)

\* the caller takes the result; the next call may start
Return ==
  /\ call.op # "none"
  /\ call' = [op |-> "none"]
  /\ result' = [status |-> "none"]
  /\ log' = <<>>
  /\ UNCHANGED <<rows, listings, exists, pool, notices, available, tasks, failed>>

Next ==
  \/ SearchSellers
  \/ SearchSellersDemoOnly
  \/ GetSellerById
  \/ GetListingsByPublicKeys
  \/ SearchListingsByText
  \/ Return

Spec == Init /\ [][Next]_vars

(* ------------------------------------- listing store, calls interleaved *)
\* get_listings_by_public_keys and search_listings_by_text are coroutines of
\* one event loop: a call runs from one await to the next without
\* interruption, and other calls run while it waits for the database.  The
\* steps below are those stretches.  What the tables hold is left open here:
\* a statement comes back with rows that parse or without.

engine == <<rows, listings, call, result, log>>

InitStore ==
  /\ rows = {}
  /\ listings = {}
  /\ exists \in BOOLEAN
  /\ available = TRUE
  /\ call = [op |-> "none"]
  /\ result = [status |-> "none"]
  /\ log = <<>>
  /\ tasks = [t \in Tasks |-> IdleTask]
  /\ failed = FALSE
  /\ pool = NewPool
  /\ notices = 0

\* the call starts: no keys or a blank query returns at once; otherwise it
\* reads the flag and awaits the primary-table statement, or with the flag
\* off the secondary-table one
StartCall(t) ==
  /\ tasks[t].pc = "idle"
  /\ \E op \in {"get_listings_by_public_keys", "search_listings_by_text"},
        empty \in BOOLEAN :
       tasks' = [tasks EXCEPT ![t] =
         [pc |-> IF empty THEN "done" ELSE IF available THEN "primary" ELSE "fallback",
          op |-> op,
          after |-> failed,
          primary |-> ~empty /\ available,
          secondary |-> ~empty /\ ~available,
          outcome |-> IF empty THEN "empty" ELSE "none"]]
  /\ UNCHANGED <<exists, pool, notices, available, failed>>
  /\ UNCHANGED engine

\* session.execute(stmt) of the primary table raises: the except block runs
\* up to its await session.rollback()
PrimaryRaises(t) ==
  /\ tasks[t].pc = "primary"
  /\ \E missing \in {~exists, FALSE} :
       /\ available' = IF missing THEN disable_listings_table(Ctx({})).available
                       ELSE available
       /\ notices' = IF missing THEN disable_listings_table(Ctx({})).notices
                     ELSE notices
       /\ failed' = (failed \/ missing)
  /\ tasks' = [tasks EXCEPT ![t].pc = "rollback"]
  /\ UNCHANGED <<exists, pool>>
  /\ UNCHANGED engine

\* session.execute(stmt) of the primary table returns rows: with a listing
\* among them the call returns it, without it awaits the secondary statement
PrimaryReturns(t) ==
  /\ tasks[t].pc = "primary"
  /\ exists
  /\ \E found \in BOOLEAN :
       tasks' = [tasks EXCEPT ![t] =
         IF found THEN [@ EXCEPT !.pc = "done", !.outcome = "primary"]
         ELSE [@ EXCEPT !.pc = "fallback", !.secondary = TRUE]]
  /\ UNCHANGED <<exists, pool, notices, available, failed>>
  /\ UNCHANGED engine

\* session.rollback() returns: the call awaits the secondary statement
RollbackReturns(t) ==
  /\ tasks[t].pc = "rollback"
  /\ tasks' = [tasks EXCEPT ![t].pc = "fallback", ![t].secondary = TRUE]
  /\ UNCHANGED <<exists, pool, notices, available, failed>>
  /\ UNCHANGED engine

\* session.execute(stmt) of the secondary table returns, or raises to the
\* caller
FallbackReturns(t) ==
  /\ tasks[t].pc = "fallback"
  /\ \E out \in {"secondary", "raised"} :
       tasks' = [tasks EXCEPT ![t].pc = "done", ![t].outcome = out]
  /\ UNCHANGED <<exists, pool, notices, available, failed>>
  /\ UNCHANGED engine

\* the caller takes the result
CallEnds(t) ==
  /\ tasks[t].pc = "done"
  /\ tasks' = [tasks EXCEPT ![t] = IdleTask]
  /\ UNCHANGED <<exists, pool, notices, available, failed>>
  /\ UNCHANGED engine

\* a migration creates the primary table, or it is dropped
TableChanges ==
  /\ exists' = ~exists
  /\ UNCHANGED <<available, tasks, failed, pool, notices>>
  /\ UNCHANGED engine

NextStore ==
  \/ \E t \in Tasks : StartCall(t)
  \/ \E t \in Tasks : PrimaryRaises(t)
  \/ \E t \in Tasks : PrimaryReturns(t)
  \/ \E t \in Tasks : RollbackReturns(t)
  \/ \E t \in Tasks : FallbackReturns(t)
  \/ \E t \in Tasks : CallEnds(t)
  \/ TableChanges

SpecStore == InitStore /\ [][NextStore]_vars

(* ------------------------------------------------- the listing ranker *)
\* filter_and_rank_listings on its own: the listings a caller may pass are
\* drawn from RankPool, which has two different listings of one id, a
\* listing without published_at and a listing without id
RankPool ==
  << [id |-> "a", published_at |-> 100, text |-> {"q1"}],
     [id |-> "a", published_at |-> 200, text |-> {"q1", "q2"}],
     [id |-> "b", published_at |-> 200, text |-> {"q2"}],
     [id |-> "c", published_at |-> NoTime, text |-> {"q2"}],
     [id |-> None, published_at |-> 50, text |-> {"q3"}] >>

RankInputs ==
  UNION {[1 .. n -> DOMAIN RankPool] : n \in 0 .. MaxRankInput}

\* nothing stored, no call in progress: the state the functions that are
\* called on their own start from
InitIdle ==
  /\ rows = {}
  /\ listings = {}
  /\ exists = TRUE
  /\ available = TRUE
  /\ call = [op |-> "none"]
  /\ result = [status |-> "none"]
  /\ log = <<>>
  /\ tasks = [t \in Tasks |-> IdleTask]
  /\ failed = FALSE
  /\ pool = NewPool
  /\ notices = 0

FilterAndRankEnds(r, items, query, max_items) ==
  /\ call' = [op |-> "filter_and_rank_listings", listings |-> items,
              query |-> query, max_items |-> max_items]
  /\ result' = [status |-> "ok", value |-> r.listings, best_score |-> r.best]
  /\ UNCHANGED <<rows, listings, exists, pool, notices, available, log, tasks,
                 failed>>

\* a call of filter_and_rank_listings(listings, query, max_items)
FilterAndRankListings ==
  /\ call.op = "none"
  /\ \E picks \in RankInputs, query \in Queries, max_items \in -1 .. MaxItems :
       FilterAndRankEnds(
         filter_and_rank_listings([i \in DOMAIN picks |-> RankPool[picks[i]]],
                                  query, max_items),
         [i \in DOMAIN picks |-> RankPool[picks[i]]], query, max_items)

NextRank ==
  \/ FilterAndRankListings
  \/ Return

SpecRank == InitIdle /\ [][NextRank]_vars

(* ------------------------------------------------------ the key decoder *)
\* The strings handed to _npub_to_hex: each string of NpubPool, as it is or
\* damaged in one place, cut short, wrapped in white space or in capitals.
NpubInputs ==
  LET codes == {98, 81, 32, 113, 49}
      places(chars) == {1, 5, 6, 20, Len(chars)}
      replaced(chars, place, code) ==
        [i \in 1 .. Len(chars) |-> IF i = place THEN code ELSE chars[i]]
      upper(chars) ==
        [i \in 1 .. Len(chars) |->
           IF chars[i] >= 97 /\ chars[i] <= 122 THEN chars[i] - 32
           ELSE chars[i]]
  IN  UNION {
        {NpubPool[b], upper(NpubPool[b]), <<32>> \o NpubPool[b] \o <<10>>}
          \cup {replaced(NpubPool[b], place, code) :
                  place \in places(NpubPool[b]), code \in codes}
          \cup {SubSeq(NpubPool[b], 1, Len(NpubPool[b]) - k) : k \in {1, 5, 6}}
        : b \in DOMAIN NpubPool }
      \cup {<<>>, <<49>>, <<110, 112, 117, 98, 49>>}

\* a call of _npub_to_hex(npub); nothing in it can raise on a string
NpubToHex ==
  /\ call.op = "none"
  /\ \E npub \in NpubInputs :
       /\ call' = [op |-> "npub_to_hex", npub |-> npub]
       /\ result' = [status |-> "ok", value |-> npub_decode(npub)]
  /\ UNCHANGED <<rows, listings, exists, pool, notices, available, log, tasks,
                 failed>>

\* The lists handed to _normalize_pubkeys: an npub, the same in capitals
\* and in white space, its hexadecimal key in lower case and in capitals,
\* a string that is no key, a blank string, an nsec, and a value that is
\* no str
PubkeyInputs ==
  LET npub == NpubPool[1]
      hex_key == npub_decode(NpubPool[1])[1]
      upper(chars) ==
        [i \in 1 .. Len(chars) |->
           IF chars[i] >= 97 /\ chars[i] <= 122 THEN chars[i] - 32
           ELSE chars[i]]
      texts == {npub, upper(npub), <<32>> \o npub \o <<10>>, hex_key,
                upper(hex_key), <<110, 111, 32, 107, 101, 121>>, <<32, 32>>,
                NpubPool[5]}
      items == [str : {TRUE}, text : texts] \cup {[str |-> FALSE, text |-> <<>>]}
  IN  UNION {[1 .. n -> items] : n \in 0 .. MaxKeys}

\* a call of _normalize_pubkeys(pubkeys)
NormalizePubkeys ==
  /\ call.op = "none"
  /\ \E pubkeys \in PubkeyInputs :
       /\ call' = [op |-> "normalize_pubkeys", pubkeys |-> pubkeys]
       /\ result' = [status |-> "ok",
                     value |-> normalize_pubkey_texts(pubkeys, <<>>)]
  /\ UNCHANGED <<rows, listings, exists, pool, notices, available, log, tasks,
                 failed>>

NextCodec ==
  \/ NpubToHex
  \/ NormalizePubkeys
  \/ Return

SpecCodec == InitIdle /\ [][NextCodec]_vars

(* ------------------------------------- the parsers, on malformed rows *)
\* A JSON-bearing column value (tags, meta_data, content) is written
\* [form, shape, obj]: form "none" for an absent or None value, "text" for a
\* str holding JSON text, "value" for an already-structured value; shape is
\* what the text decodes to ("invalid" when json.loads raises
\* JSONDecodeError) or what the structured value is; obj holds the fields of
\* an object.
EmptyDoc ==
  [type |-> None, seller |-> None, title |-> None, amount |-> None,
   summary |-> None]

ColumnValues ==
  LET docs ==
        { EmptyDoc,
          [EmptyDoc EXCEPT !.type = "classified_listing", !.seller = "n1"],
          [EmptyDoc EXCEPT !.type = "classified_listing", !.seller = "n1",
                           !.title = "q1", !.amount = "4"],
          [EmptyDoc EXCEPT !.type = "classified_listing", !.seller = "n1",
                           !.title = "q1", !.summary = "q2"],
          [EmptyDoc EXCEPT !.type = "restaurant", !.title = "q1"],
          [EmptyDoc EXCEPT !.seller = "n1", !.title = "q1",
                           !.amount = "abc"] }
  IN  {[form |-> "none", shape |-> "null", obj |-> EmptyDoc],
       [form |-> "text", shape |-> "invalid", obj |-> EmptyDoc]}
      \cup [form : {"text", "value"}, shape : {"array", "number", "null"},
            obj : {EmptyDoc}]
      \cup [form : {"text", "value"}, shape : {"object"}, obj : docs]

\* meta / content of _parse_classified_listing_row after the two
\* isinstance chains, as a Python value [shape, obj]: json.loads of a str
\* (its result whatever it is, {} on JSONDecodeError), dict() of a Mapping,
\* {} otherwise
LoadColumn(raw) ==
  IF (raw.form = "text" /\ raw.shape # "invalid")
     \/ (raw.form = "value" /\ raw.shape = "object")
  THEN [shape |-> raw.shape, obj |-> raw.obj]
  ELSE [shape |-> "object", obj |-> EmptyDoc]

Raised(error) == [status |-> "raised", error |-> error, value |-> <<>>]

Returned(value) == [status |-> "ok", error |-> None, value |-> value]

\* float(amount) of a str amount, the float written as Python prints it;
\* None when float() raises
FloatOf(amount) == CASE amount = "4" -> "4.0" [] OTHER -> None

\* value is None, for the value of a key of a listing payload: a list is
\* never None, and a published_at that is None is written NoTime
is_none(key, value) ==
  IF key \in {"images", "tags", "raw_tags"} THEN FALSE
  ELSE IF key = "published_at" THEN value = NoTime
  ELSE value = None

\* _finalize_listing_payload, and the comprehension that ends
\* _parse_listing: the keys of the dict they give, retained being the keys
\* that are kept whatever their value
finalize_listing_payload(payload, retained) ==
  {key \in DOMAIN payload :
     ~is_none(key, payload[key]) \/ key \in retained}

\* a listing of the model: the fields the callers read, the payload the
\* parser built and the keys of the dict it returned; pubkey is the seller
\* _parse_classified_listing_row returns with the listing, None for
\* _parse_listing
Listing(pubkey, payload, retained) ==
  [pubkey |-> pubkey, title |-> payload.title, amount |-> payload.price,
   published_at |-> payload.published_at, payload |-> payload,
   keys |-> finalize_listing_payload(payload, retained)]

\* _parse_classified_listing_row from meta.get("type") on: x.get raises
\* AttributeError on a value that is no object
ClassifiedFrom(row, meta, content) ==
  IF meta.shape # "object"
  THEN Raised("AttributeError")
  ELSE IF meta.obj.type = None /\ content.shape # "object"
  THEN Raised("AttributeError")
  ELSE IF (IF meta.obj.type = None THEN content.obj.type ELSE meta.obj.type)
            # "classified_listing"
  THEN Returned(<<>>)
  ELSE IF content.shape # "object"
  THEN Raised("AttributeError")
  ELSE IF (IF content.obj.seller # None THEN content.obj.seller
           ELSE meta.obj.seller) = None
  THEN Returned(<<>>)
  ELSE IF (IF content.obj.title # None THEN content.obj.title
           ELSE row.name) = None
  THEN Returned(<<>>)
  ELSE Returned(
         << Listing(
                 IF content.obj.seller # None THEN content.obj.seller
                 ELSE meta.obj.seller,
                 [title |-> IF content.obj.title # None THEN content.obj.title
                            ELSE row.name,
                  summary |-> IF content.obj.summary # None
                              THEN content.obj.summary ELSE meta.obj.summary,
                  content |-> IF content.obj.summary # None
                              THEN content.obj.summary ELSE meta.obj.summary,
                  status |-> None,
                  price |-> FloatOf(content.obj.amount),
                  published_at |-> NoTime,
                  images |-> <<>>, tags |-> <<>>, raw_tags |-> <<>>],
                 {"content", "images", "tags", "raw_tags", "summary"}) >>)

\* _parse_classified_listing_row with what it raises
ParseClassifiedOf(row) ==
  ClassifiedFrom(row, LoadColumn(row.meta_data), LoadColumn(row.content))

\* Timestamps are written as their decimal text: two in range, one whose
\* year is beyond 9999, one beyond the range of time_t.
Timestamps == {"50", "300", "1000000000000", "99999999999999999999"}

\* datetime.fromtimestamp(int(text), tz=timezone.utc) inside
\* try / except ValueError: the time, None, or the error that escapes
from_timestamp(text) ==
  CASE text = "50" -> Returned(50)
    [] text = "300" -> Returned(300)
    [] text = "1000000000000" -> Returned(NoTime)
    [] OTHER -> Raised("OverflowError")

\* _parse_published_at with what it raises
PublishedAtOf(published_raw, created_at) ==
  IF published_raw # None /\ published_raw \in Timestamps
  THEN from_timestamp(published_raw)
  ELSE IF created_at # None
  THEN from_timestamp(created_at)
  ELSE Returned(NoTime)

\* the tags of a row of the primary table once _normalize_tags and
\* _group_tags are done: an object of tag values when the column holds an
\* array of tags (as a value or as JSON text), no tag otherwise
EmptyTags ==
  [title |-> None, published_at |-> None, amount |-> None, summary |-> None]

TagColumns ==
  LET tag_sets ==
        { EmptyTags,
          [EmptyTags EXCEPT !.title = "q1"],
          [EmptyTags EXCEPT !.title = "q1", !.amount = "abc"],
          [EmptyTags EXCEPT !.title = "q1", !.amount = "4"],
          [EmptyTags EXCEPT !.title = "q1", !.summary = "q2"] }
        \cup {[EmptyTags EXCEPT !.title = "q1", !.published_at = p] :
                p \in Timestamps \cup {"abc"}}
  IN  {[form |-> "none", shape |-> "null", tags |-> EmptyTags],
       [form |-> "text", shape |-> "invalid", tags |-> EmptyTags]}
      \cup [form : {"text", "value"}, shape : {"object", "number", "null"},
            tags : {EmptyTags}]
      \cup [form : {"text", "value"}, shape : {"array"}, tags : tag_sets]

normalize_tags(raw_tags) ==
  IF raw_tags.form = "none" \/ raw_tags.shape # "array"
  THEN EmptyTags
  ELSE raw_tags.tags

ListingOf(tags, published) ==
  IF published.status = "raised"
  THEN published
  ELSE Returned(
         << Listing(
              None,
              [title |-> tags.title, summary |-> tags.summary,
               content |-> None, status |-> None,
               price |-> FloatOf(tags.amount),
               published_at |-> published.value,
               images |-> <<>>, tags |-> <<>>, raw_tags |-> <<>>],
              {"content", "images", "tags", "raw_tags"}) >>)

\* _parse_listing with what it raises
ParseListingOf(row) ==
  IF normalize_tags(row.tags).title = None
  THEN Returned(<<>>)
  ELSE ListingOf(normalize_tags(row.tags),
                 PublishedAtOf(normalize_tags(row.tags).published_at,
                               row.created_at))

\* a call of _parse_listing(row)
ParseListing ==
  /\ call.op = "none"
  /\ \E tags \in TagColumns, created_at \in Timestamps \cup {None} :
       /\ call' = [op |-> "parse_listing",
                   row |-> [tags |-> tags, created_at |-> created_at]]
       /\ result' = ParseListingOf([tags |-> tags, created_at |-> created_at])
  /\ UNCHANGED <<rows, listings, exists, pool, notices, available, log, tasks,
                 failed>>

\* a call of _parse_classified_listing_row(row)
ParseClassifiedListingRow ==
  /\ call.op = "none"
  /\ \E meta_data \in ColumnValues, content \in ColumnValues,
        name \in {None, "q2"} :
       /\ call' = [op |-> "parse_classified_listing_row",
                   row |-> [meta_data |-> meta_data, content |-> content,
                            name |-> name]]
       /\ result' = ParseClassifiedOf([meta_data |-> meta_data,
                                       content |-> content, name |-> name])
  /\ UNCHANGED <<rows, listings, exists, pool, notices, available, log, tasks,
                 failed>>

\* _parse_price on grouped.get("price"), the components of each price tag
\* in order (<<>> when there is no price tag): <<>> for None, else the
\* payload, a key the dict does not hold being None
parse_price(price_entries) ==
  LET components == price_entries[1]
      amount == IF Len(components) >= 1 THEN FloatOf(components[1]) ELSE None
      currency == IF Len(components) >= 2 THEN components[2] ELSE None
      frequency == IF Len(components) >= 3 THEN components[3] ELSE None
  IN  IF price_entries = <<>> THEN <<>>
      ELSE IF components = <<>> THEN <<>>
      ELSE IF amount = None /\ currency = None THEN <<>>
      ELSE << [amount |-> amount,
               currency |-> IF currency # None /\ currency # ""
                            THEN currency ELSE None,
               frequency |-> IF frequency # None /\ frequency # ""
                             THEN frequency ELSE None] >>

\* a call of _parse_price(grouped): no price tag, or a first price tag of
\* up to three components
ParsePrice ==
  /\ call.op = "none"
  /\ \E price_entries \in
          {<<>>} \cup {<<components>> : components \in
                         UNION {[1 .. n -> {"4", "abc", "", "USD"}] : n \in 0 .. 3}} :
       /\ call' = [op |-> "parse_price", price_entries |-> price_entries]
       /\ result' = Returned(parse_price(price_entries))
  /\ UNCHANGED <<rows, listings, exists, pool, notices, available, log, tasks,
                 failed>>

NextParse ==
  \/ ParseListing
  \/ ParseClassifiedListingRow
  \/ ParsePrice
  \/ Return

SpecParse == InitIdle /\ [][NextParse]_vars

(* ------------------------------------------------ NIP-89 relay pool *)
\* check_handlers as two steps, before and after its one await
\* (self._query_relays); time may pass in between. Times are ticks of
\* datetime.now(); one call is in flight at a time.

\* the npub arguments: two keys and a string that is no key
NpubLists == UNION {[1 .. n -> {"n1", "n2", "bad"}] : n \in 1 .. MaxNpubs}

\* the d_tags arguments: absent (one tag by default), that tag twice, two
\* tags either way
DTagLists ==
  {None, <<"9901", "9901">>, <<"9901", "9902">>, <<"9902", "9901">>}

\* NostrRelayPool._npub_to_hex: PublicKey.parse(npub).to_hex(), None when
\* parsing raises
pool_npub_to_hex(npub) ==
  CASE npub = "n1" -> "h1"
    [] npub = "n2" -> "h2"
    [] OTHER -> None

RECURSIVE JoinTags(_)
JoinTags(tags) ==
  IF tags = <<>> THEN ""
  ELSE IF Len(tags) = 1 THEN tags[1]
  ELSE tags[1] \o "_" \o JoinTags(Tail(tags))

\* "_".join(sorted(d_tags)), d_tags defaulting to ["9901"]
cache_key_suffix(d_tags) ==
  IF d_tags = None THEN "9901"
  ELSE JoinTags(StableSort(d_tags,
                           [i \in DOMAIN d_tags |->
                              IF d_tags[i] = "9901" THEN 1 ELSE 2]))

cache_key(d_tags, npub) == "nip89:" \o cache_key_suffix(d_tags) \o ":" \o npub

\* the test "cached.expires_at < now", a variant of the freshness test
is_fresh_reversed(cached, now) == cached.expires_at < now

\* cached.expires_at > now
is_fresh(cached, now) == cached.expires_at > now

\* cached and cached.expires_at > now, for self.cache.get(cache_key)
CacheHit(cache, key, now) ==
  \E cached \in cache : cached.key = key /\ is_fresh(cached, now)

\* results after the loop over the cache
CachedResults(cache, npubs, d_tags, now) ==
  [npub \in {n \in Range(npubs) : CacheHit(cache, cache_key(d_tags, n), now)}
     |-> (CHOOSE cached \in cache :
            cached.key = cache_key(d_tags, npub)).value]

uncached_npubs(cache, npubs, d_tags, now) ==
  SelectSeq(npubs, LAMBDA n : ~CacheHit(cache, cache_key(d_tags, n), now))

\* hex_pubkeys, in the order of uncached_npubs
HexPubkeys(uncached) ==
  LET valid == SelectSeq(uncached, LAMBDA n : pool_npub_to_hex(n) # None)
  IN  [i \in DOMAIN valid |-> pool_npub_to_hex(valid[i])]

\* results[npub] = None for each uncached npub that has no hex form
WithInvalid(results, uncached) ==
  [npub \in DOMAIN results
            \cup {n \in Range(uncached) : pool_npub_to_hex(n) = None}
     |-> IF npub \in DOMAIN results THEN results[npub] ELSE None]

\* npub_to_hex_map[hex_pk]: the last uncached npub of that hex form
NpubOf(uncached, hex_pk) ==
  uncached[CHOOSE i \in DOMAIN uncached :
             /\ pool_npub_to_hex(uncached[i]) = hex_pk
             /\ \A j \in DOMAIN uncached :
                  pool_npub_to_hex(uncached[j]) = hex_pk => j <= i]

\* the loop over hex_pubkeys after the query: results
WithAnswers(results, uncached, hex_pubkeys, handler_pubkeys) ==
  [npub \in DOMAIN results
            \cup {NpubOf(uncached, h) : h \in Range(hex_pubkeys)}
     |-> IF pool_npub_to_hex(npub) \in Range(hex_pubkeys)
            /\ npub = NpubOf(uncached, pool_npub_to_hex(npub))
         THEN IF pool_npub_to_hex(npub) \in handler_pubkeys
              THEN "True" ELSE "False"
         ELSE results[npub]]

\* the loop over hex_pubkeys after the query: self.cache
CacheWithAnswers(cache, d_tags, uncached, hex_pubkeys, handlers, expires) ==
  {cached \in cache :
     \A h \in Range(hex_pubkeys) :
       cached.key # cache_key(d_tags, NpubOf(uncached, h))}
  \cup {[key |-> cache_key(d_tags, NpubOf(uncached, h)),
         value |-> IF h \in handlers THEN "True" ELSE "False",
         expires_at |-> expires] : h \in Range(hex_pubkeys)}

\* the except branch: None for every uncached npub without a result
WithFailure(results, uncached) ==
  [npub \in DOMAIN results \cup Range(uncached)
     |-> IF npub \in DOMAIN results THEN results[npub] ELSE None]

\* check_handlers up to its await, or to its return when nothing is left
\* to ask the relays
CheckHandlersBegins(npubs, d_tags, results, uncached) ==
  /\ pool' = [pool EXCEPT
                !.cache_hits = @ + Len(npubs) - Len(uncached),
                !.cache_misses = @ + Len(uncached)]
  /\ call' = [op |-> "check_handlers", npubs |-> npubs, d_tags |-> d_tags,
              now |-> pool.now, uncached |-> uncached,
              hex_pubkeys |-> HexPubkeys(uncached),
              results |-> WithInvalid(results, uncached),
              outcome |-> "none",
              pc |-> IF HexPubkeys(uncached) = <<>> THEN "done" ELSE "await"]
  /\ result' = IF HexPubkeys(uncached) = <<>>
               THEN [status |-> "ok", value |-> WithInvalid(results, uncached)]
               ELSE [status |-> "none"]
  /\ log' = IF HexPubkeys(uncached) = <<>> THEN <<>>
            ELSE <<[q |-> "query_relays", authors |-> HexPubkeys(uncached)]>>
  /\ UNCHANGED <<rows, listings, exists, available, tasks, failed, notices>>

CheckHandlers ==
  /\ call.op = "none"
  /\ \E npubs \in NpubLists, d_tags \in DTagLists :
       /\ pool.cache_hits + pool.cache_misses + Len(npubs) <= MaxLookups
       /\ CheckHandlersBegins(
            npubs, d_tags,
            CachedResults(pool.cache, npubs, d_tags, pool.now),
            uncached_npubs(pool.cache, npubs, d_tags, pool.now))

\* _query_relays returns the events the relays hold (those of
\* handler_pubkeys), or catches asyncio.TimeoutError or any other exception
\* and returns []; check_handlers stores the answers
QueryReturns ==
  /\ call.op = "check_handlers" /\ call.pc = "await"
  /\ \E outcome \in {"ok", "timeout", "error"},
        handler_pubkeys \in SUBSET Range(call.hex_pubkeys) :
       /\ outcome # "ok" => handler_pubkeys = {}
       /\ call' = [call EXCEPT !.pc = "done", !.outcome = outcome]
       /\ result' = [status |-> "ok",
                     value |-> WithAnswers(call.results, call.uncached,
                                           call.hex_pubkeys, handler_pubkeys)]
       /\ pool' = [pool EXCEPT !.cache =
                     CacheWithAnswers(pool.cache, call.d_tags, call.uncached,
                                      call.hex_pubkeys, handler_pubkeys,
                                      call.now + CacheTtl)]
  /\ UNCHANGED <<rows, listings, exists, available, log, tasks, failed,
                 notices>>

\* reading the events raises (event.author().to_hex()): the except branch
EventsRaise ==
  /\ call.op = "check_handlers" /\ call.pc = "await"
  /\ call' = [call EXCEPT !.pc = "done", !.outcome = "raised"]
  /\ result' = [status |-> "ok",
                value |-> WithFailure(call.results, call.uncached)]
  /\ UNCHANGED <<rows, listings, exists, available, log, tasks, failed, pool, notices>>

\* datetime.now() moves on
Tick ==
  /\ pool.now < MaxClock
  /\ pool' = [pool EXCEPT !.now = @ + 1]
  /\ UNCHANGED <<rows, listings, exists, available, call, result, log, tasks,
                 failed, notices>>

\* check_handlers returns to its caller
CheckHandlersReturns ==
  /\ call.op = "check_handlers" /\ call.pc = "done"
  /\ Return

NextRelay ==
  \/ CheckHandlers
  \/ QueryReturns
  \/ EventsRaise
  \/ Tick
  \/ CheckHandlersReturns

SpecRelay == InitIdle /\ [][NextRelay]_vars

(* ------------------------------------------------ the merge of sellers *)
\* The merge loop of search_sellers on its own: the sellers it is given are
\* rows of the shared table that share keys (s1 and s2, s3 and s4), each with
\* or without a distance and with a score.
MergeInputs ==
  LET sellers ==
        {[SellerOf(RowPool[row], distance) EXCEPT !.score = score] :
           row \in {1, 2, 3, 4}, distance \in {NoDist, 0, 5},
           score \in {0, 10}}
  IN  UNION {[1 .. n -> sellers] : n \in 1 .. MaxMerge}

\* the loop "for seller in sellers" over merged_sellers
Merge ==
  /\ call.op = "none"
  /\ \E sellers \in MergeInputs :
       /\ call' = [op |-> "merge_sellers", sellers |-> sellers]
       /\ result' = [status |-> "ok",
                     value |-> MergeSellers(sellers, <<>>, <<>>)]
  /\ UNCHANGED <<rows, listings, exists, available, log, tasks, failed, pool, notices>>

NextMerge ==
  \/ Merge
  \/ Return

SpecMerge == InitIdle /\ [][NextMerge]_vars

(* ---------------------------------------------- the geo annotation *)
\* The block of search_sellers under "if user_coordinates is not None", for
\* one seller, on its own. A coordinate is a float written as Python prints
\* it, or None; the points lie on the meridian of longitude 0.0, where the
\* great-circle distance is the difference of the latitudes times
\* 111.195 km. A distance is [nan, km], km in whole kilometres.

\* haversine_km: math.sin raises ValueError on an infinite angle, and a nan
\* angle gives a nan distance; <<>> stands for the ValueError
haversine_km(lat1, lon1, lat2, lon2) ==
  LET degrees(text) == CASE text = "0.0" -> 0 [] text = "1.0" -> 1
                         [] text = "2.0" -> 2 [] text = "3.0" -> 3
                         [] OTHER -> 0
      apart == IF degrees(lat1) >= degrees(lat2)
               THEN degrees(lat1) - degrees(lat2)
               ELSE degrees(lat2) - degrees(lat1)
  IN  IF "inf" \in {lat1, lon1, lat2, lon2} THEN <<>>
      ELSE IF "nan" \in {lat1, lon1, lat2, lon2}
      THEN <<[nan |-> TRUE, km |-> 0]>>
      ELSE <<[nan |-> FALSE, km |-> (111195 * apart) \div 1000]>>

\* build_maps_url: both coordinates formatted with six decimals
build_maps_url(latitude, longitude) ==
  LET fixed(text) == CASE text = "0.0" -> "0.000000"
                       [] text = "1.0" -> "1.000000"
                       [] text = "2.0" -> "2.000000"
                       [] text = "3.0" -> "3.000000"
                       [] OTHER -> text
  IN  "https://www.google.com/maps/search/?api=1&query="
        \o fixed(latitude) \o "%2C" \o fixed(longitude)

\* d_km < min_geo_distance on floats: false when either is nan
less_than(d_km, min_geo_distance) ==
  ~d_km.nan /\ ~min_geo_distance.nan /\ d_km.km < min_geo_distance.km

\* the loop over trimmed_listings from the listing at place i on; at holds
\* the listings as annotated so far, min_geo_distance and min_coords (<<>>
\* for None); the result is <<>> when haversine_km raises
RECURSIVE annotate_listings(_, _, _)
annotate_listings(user_coordinates, at, i) ==
  LET listing == at.listings[i]
      numeric == listing.latitude # None /\ listing.longitude # None
      d_km == haversine_km(listing.latitude, listing.longitude,
                           user_coordinates[1], user_coordinates[2])
      nearer == at.min_geo_distance = <<>>
                \/ less_than(d_km[1], at.min_geo_distance[1])
  IN  IF i > Len(at.listings) THEN <<at>>
      ELSE IF ~numeric THEN annotate_listings(user_coordinates, at, i + 1)
      ELSE IF d_km = <<>> THEN <<>>
      ELSE annotate_listings(
             user_coordinates,
             [listings |->
                [at.listings EXCEPT ![i] =
                   [listing EXCEPT
                      !.geo_distance_km = d_km,
                      !.maps_url = <<build_maps_url(listing.latitude,
                                                    listing.longitude)>>]],
              min_geo_distance |-> IF nearer THEN d_km
                                   ELSE at.min_geo_distance,
              min_coords |-> IF nearer
                             THEN <<listing.latitude, listing.longitude>>
                             ELSE at.min_coords],
             i + 1)

\* the block for one seller: its listings and its own geo fields after it
annotate_seller(user_coordinates, trimmed_listings) ==
  LET start == [listings |-> trimmed_listings, min_geo_distance |-> <<>>,
                min_coords |-> <<>>]
      done == annotate_listings(user_coordinates, start, 1)
  IN  IF user_coordinates = None
      THEN Returned([listings |-> trimmed_listings,
                     geo_distance_km |-> <<>>, coords |-> <<>>,
                     maps_url |-> <<>>])
      ELSE IF done = <<>> THEN Raised("ValueError")
      ELSE Returned([listings |-> done[1].listings,
                     geo_distance_km |-> done[1].min_geo_distance,
                     coords |-> done[1].min_coords,
                     maps_url |->
                       IF done[1].min_coords = <<>> THEN <<>>
                       ELSE <<build_maps_url(done[1].min_coords[1],
                                             done[1].min_coords[2])>>])

\* the listings of one seller as the parsers give them: with or without
\* coordinates, a latitude that is a number, nan or inf
GeoInputs ==
  LET parsed ==
        [latitude : {None, "0.0", "1.0", "3.0", "nan", "inf"},
         longitude : {None, "0.0"},
         geo_distance_km : {<<>>}, maps_url : {<<>>}]
  IN  UNION {[1 .. n -> parsed] : n \in 0 .. MaxGeo}

\* search_sellers reaches the geo annotation of a seller
AnnotateGeo ==
  /\ call.op = "none"
  /\ \E trimmed_listings \in GeoInputs,
        user_coordinates \in {None, <<"0.0", "0.0">>, <<"2.0", "0.0">>} :
       /\ call' = [op |-> "annotate_geo",
                   user_coordinates |-> user_coordinates,
                   trimmed_listings |-> trimmed_listings]
       /\ result' = annotate_seller(user_coordinates, trimmed_listings)
  /\ UNCHANGED <<rows, listings, exists, pool, notices, available, log, tasks,
                 failed>>

NextGeo ==
  \/ AnnotateGeo
  \/ Return

SpecGeo == InitIdle /\ [][NextGeo]_vars

(* ------------------------------------- the relay pool's client, shared *)
\* NostrRelayPool._ensure_client and close under several callers of one
\* event loop. A step is the code between two awaits. pool holds the
\* fields these two methods read and write: client (0 for None, else the
\* number of the Client object), the asyncio.Lock (its holder and its
\* queue), relay_metrics, and, as history, the number of Client objects
\* constructed, the clients whose set-up has finished and the closes done.

\* self.relays
Relays == <<"wss://r1", "wss://r2">>

\* RelayMetrics(url=url)
NewRelayMetrics ==
  [status |-> "disconnected", query_count |-> 0, error_count |-> 0,
   consecutive_errors |-> 0, circuit_open_until |-> NoTime]

\* a caller of _ensure_client: where it stands, the relay it is adding,
\* what it returned (<<>> before it returns) and whether the set-up of
\* that client had finished when it returned
IdleCaller == [pc |-> "idle", relay |-> 0, client |-> <<>>, complete |-> FALSE]

InitPool ==
  /\ rows = {}
  /\ listings = {}
  /\ exists = TRUE
  /\ available = TRUE
  /\ call = [op |-> "none"]
  /\ result = [status |-> "none"]
  /\ log = <<>>
  /\ tasks = [t \in Tasks |-> IdleCaller]
  /\ failed = FALSE
  /\ pool = [client |-> 0, lock |-> 0, waiters |-> <<>>,
             relay_metrics |->
               [url \in {Relays[i] : i \in DOMAIN Relays} |-> NewRelayMetrics],
             clients |-> 0, ready |-> {}, closing |-> FALSE, closes |-> 0,
             now |-> 0]
  /\ notices = 0

\* return self.client
ReturnClient(p) ==
  [pc |-> "done", relay |-> 0, client |-> <<p.client>>,
   complete |-> p.client \in p.ready]

\* caller t inside "async with self._connection_lock", from the second
\* test of self.client to its first await or its return
UnderLock(p, t) ==
  IF p.client # 0
  THEN [pool |-> [p EXCEPT !.lock = 0], task |-> ReturnClient(p)]
  ELSE [pool |-> [p EXCEPT !.lock = t, !.client = p.clients + 1,
                           !.clients = @ + 1],
        task |-> IF Relays = <<>>
                 THEN [IdleCaller EXCEPT !.pc = "connect"]
                 ELSE [IdleCaller EXCEPT !.pc = "add_relay", !.relay = 1]]

\* _ensure_client is called: the first test of self.client, then the lock,
\* which is taken at once when it is free and nobody queues for it
EnsureClientBegins(t) ==
  /\ tasks[t].pc = "idle"
  /\ IF pool.client # 0
     THEN /\ tasks' = [tasks EXCEPT ![t] = ReturnClient(pool)]
          /\ pool' = pool
     ELSE IF pool.lock = 0 /\ pool.waiters = <<>>
     THEN /\ tasks' = [tasks EXCEPT ![t] = UnderLock(pool, t).task]
          /\ pool' = UnderLock(pool, t).pool
     ELSE /\ tasks' = [tasks EXCEPT ![t].pc = "locked"]
          /\ pool' = [pool EXCEPT !.waiters = Append(@, t)]
  /\ UNCHANGED <<rows, listings, exists, notices, available, call, result, log,
                 failed>>

\* the lock is free and caller t is the first of its queue
LockAcquired(t) ==
  /\ tasks[t].pc = "locked"
  /\ pool.lock = 0
  /\ pool.waiters # <<>> /\ Head(pool.waiters) = t
  /\ tasks' = [tasks EXCEPT
                 ![t] = UnderLock([pool EXCEPT !.waiters = Tail(@)], t).task]
  /\ pool' = UnderLock([pool EXCEPT !.waiters = Tail(@)], t).pool
  /\ UNCHANGED <<rows, listings, exists, notices, available, call, result, log,
                 failed>>

\* the except branch of the loop over self.relays
add_relay_failed(metrics) ==
  [metrics EXCEPT !.status = "disconnected", !.error_count = @ + 1,
                  !.consecutive_errors = @ + 1]

\* await self.client.add_relay(relay) ends, by returning or by raising, and
\* the loop goes on to the next await. When close has set self.client to
\* None meanwhile, self.client.add_relay and self.client.connect raise
\* AttributeError without awaiting: the other relays are marked failed,
\* the lock is released and None is returned, all in this step.
AddRelayEnds(t) ==
  /\ tasks[t].pc = "add_relay"
  /\ \E raises \in BOOLEAN :
       LET added == [pool EXCEPT
                       !.relay_metrics[Relays[tasks[t].relay]] =
                         IF raises THEN add_relay_failed(@)
                         ELSE [@ EXCEPT !.status = "connected"]]
           later == {Relays[i] : i \in tasks[t].relay + 1 .. Len(Relays)}
       IN  IF pool.client = 0
           THEN /\ pool' = [added EXCEPT
                              !.lock = 0,
                              !.relay_metrics =
                                [url \in DOMAIN @ |->
                                   IF url \in later THEN add_relay_failed(@[url])
                                   ELSE @[url]]]
                /\ tasks' = [tasks EXCEPT ![t] = ReturnClient(pool)]
           ELSE /\ pool' = added
                /\ tasks' = [tasks EXCEPT
                               ![t] = IF tasks[t].relay < Len(Relays)
                                      THEN [@ EXCEPT !.relay = @ + 1]
                                      ELSE [@ EXCEPT !.pc = "connect",
                                                     !.relay = 0]]
  /\ UNCHANGED <<rows, listings, exists, notices, available, call, result, log,
                 failed>>

\* asyncio.wait_for(self.client.connect(), ...) ends: it returns, times out
\* or raises, which the code tells apart in its log lines only; the lock
\* is released and self.client returned
ConnectEnds(t) ==
  /\ tasks[t].pc = "connect"
  /\ pool' = [pool EXCEPT !.ready = @ \cup {pool.clients}, !.lock = 0]
  /\ tasks' = [tasks EXCEPT ![t] = ReturnClient(pool')]
  /\ UNCHANGED <<rows, listings, exists, notices, available, call, result, log,
                 failed>>

\* close is called and finds a client: await self.client.disconnect()
CloseBegins ==
  /\ pool.client # 0
  /\ ~pool.closing
  /\ pool.closes < MaxCloses
  /\ pool' = [pool EXCEPT !.closing = TRUE]
  /\ UNCHANGED <<rows, listings, exists, notices, available, call, result, log,
                 tasks, failed>>

\* disconnect returns or raises: finally self.client = None
DisconnectEnds ==
  /\ pool.closing
  /\ pool' = [pool EXCEPT !.closing = FALSE, !.client = 0, !.closes = @ + 1]
  /\ UNCHANGED <<rows, listings, exists, notices, available, call, result, log,
                 tasks, failed>>

\* a caller that has its answer calls again
CallerReturns(t) ==
  /\ tasks[t].pc = "done"
  /\ tasks' = [tasks EXCEPT ![t] = IdleCaller]
  /\ UNCHANGED <<rows, listings, exists, pool, notices, available, call,
                 result, log, failed>>

NextClient ==
  \/ \E t \in Tasks : EnsureClientBegins(t)
  \/ \E t \in Tasks : LockAcquired(t)
  \/ \E t \in Tasks : AddRelayEnds(t)
  \/ \E t \in Tasks : ConnectEnds(t)
  \/ \E t \in Tasks : CallerReturns(t)
  \/ CloseBegins
  \/ DisconnectEnds

SpecClient == InitPool /\ [][NextClient]_vars

(* ------------------------------------------ the relay circuit breaker *)
\* _query_relays, get_cache_stats and close called one after another on
\* one pool, for what they do to relay_metrics. The clock is pool.now.

\* _record_query_error
record_query_error(metrics, now) ==
  LET counted == [metrics EXCEPT !.error_count = @ + 1,
                                 !.consecutive_errors = @ + 1]
  IN  IF counted.consecutive_errors >= CircuitBreakerThreshold
      THEN [counted EXCEPT !.status = "circuit_open",
                           !.circuit_open_until = now + CircuitBreakerTimeout]
      ELSE counted

\* _ensure_client run to its end with nobody else in the loop;
\* raises[url] says whether add_relay raises for that relay
ensure_client(p, raises) ==
  IF p.client # 0 THEN p
  ELSE [p EXCEPT
          !.client = p.clients + 1, !.clients = @ + 1,
          !.ready = @ \cup {p.clients + 1},
          !.relay_metrics =
            [url \in DOMAIN @ |->
               IF raises[url] THEN add_relay_failed(@[url])
               ELSE [@[url] EXCEPT !.status = "connected"]]]

\* _query_relays: the client is ensured, then fetch_events returns the
\* events, times out or raises
QueryRelays ==
  /\ call.op = "none"
  /\ \A url \in DOMAIN pool.relay_metrics :
       pool.relay_metrics[url].query_count + pool.relay_metrics[url].error_count
         < MaxQueries
  /\ \E outcome \in {"events", "timeout", "error"},
        raises \in [DOMAIN pool.relay_metrics -> BOOLEAN] :
       /\ pool' = [ensure_client(pool, raises) EXCEPT
                     !.relay_metrics =
                       [url \in DOMAIN @ |->
                          IF outcome = "events"
                          THEN [@[url] EXCEPT !.query_count = @ + 1,
                                              !.consecutive_errors = 0]
                          ELSE record_query_error(@[url], pool.now)]]
       /\ call' = [op |-> "query_relays", outcome |-> outcome]
       /\ result' = [status |-> "ok", value |-> outcome = "events"]
  /\ UNCHANGED <<rows, listings, exists, notices, available, log, tasks,
                 failed>>

\* get_cache_stats: the loop over relay_metrics closes the circuits whose
\* time has passed and reports each relay's status
GetCacheStats ==
  /\ call.op = "none"
  /\ pool' = [pool EXCEPT
                !.relay_metrics =
                  [url \in DOMAIN @ |->
                     IF /\ @[url].status = "circuit_open"
                        /\ @[url].circuit_open_until # NoTime
                        /\ @[url].circuit_open_until < pool.now
                     THEN [@[url] EXCEPT !.status = "connected",
                                         !.consecutive_errors = 0,
                                         !.circuit_open_until = NoTime]
                     ELSE @[url]]]
  /\ call' = [op |-> "get_cache_stats"]
  /\ result' = [status |-> "ok",
                value |-> [url \in DOMAIN pool.relay_metrics |->
                             pool'.relay_metrics[url].status]]
  /\ UNCHANGED <<rows, listings, exists, notices, available, log, tasks,
                 failed>>

\* close, with nobody else in the loop
ClosePool ==
  /\ call.op = "none"
  /\ pool.client # 0
  /\ pool.closes < MaxCloses
  /\ pool' = [pool EXCEPT !.client = 0, !.closes = @ + 1]
  /\ call' = [op |-> "close"]
  /\ result' = [status |-> "ok"]
  /\ UNCHANGED <<rows, listings, exists, notices, available, log, tasks,
                 failed>>

\* datetime.now() moves on
BreakerTick ==
  /\ pool.now < MaxTicks
  /\ pool' = [pool EXCEPT !.now = @ + 1]
  /\ UNCHANGED <<rows, listings, exists, notices, available, call, result, log,
                 tasks, failed>>

NextBreaker ==
  \/ QueryRelays
  \/ GetCacheStats
  \/ ClosePool
  \/ BreakerTick
  \/ Return

SpecBreaker == InitPool /\ [][NextBreaker]_vars

(* --------------------------------------------------------- properties *)
SearchReturned == call.op = "search_sellers" /\ result.status = "ok"

KeySet(seller) == Range(seller.normalized_pubkeys)

\* C1: in every list search_sellers returns, with or without a query text,
\* no two seller records have normalized_pubkeys that intersect
C1_NoTwoSellersShareAKey ==
  SearchReturned =>
    \A i, j \in DOMAIN result.value :
      i # j => KeySet(result.value[i]) \cap KeySet(result.value[j]) = {}

\* C2: a database error in any query of search_sellers,
\* get_listings_by_public_keys or search_listings_by_text is caught: the
\* call returns and never ends with the error propagated to the caller
C2_DatabaseErrorsNeverPropagate ==
  call.op \in {"search_sellers", "get_listings_by_public_keys",
               "search_listings_by_text"}
    => ~(result.status = "raised" /\ result.error = "SQLAlchemyError")
Logged(q, out) == \E n \in DOMAIN log : log[n] = [q |-> q, out |-> out]

\* the titled rows of the primary table stored under one of the keys
PrimaryIdsOf(keys) ==
  {ListingPool[i].event_id : i \in
     {i \in listings : /\ ListingPool[i].tags.title # None
                       /\ StoreKeys(ListingPool[i].pubkey) \cap keys # {}}}

\* the classified-listing documents of the shared table that name a seller
\* and have a title, as the pair of their seller reference and listing id
SecondaryDocs ==
  {d \in {[ref |-> RowPool[i].meta_data.seller,
           seller |-> IF RowPool[i].content.dict /\ RowPool[i].content.seller # None
                      THEN RowPool[i].content.seller ELSE RowPool[i].meta_data.seller,
           id |-> IF RowPool[i].content.dict /\ RowPool[i].content.id # None
                  THEN RowPool[i].content.id ELSE RowPool[i].id] :
          i \in {i \in rows : /\ RowPool[i].meta_data.dict
                              /\ RowPool[i].meta_data.type = "classified_listing"
                              /\ RowPool[i].content.dict
                              /\ RowPool[i].content.title # None}} :
     d.seller # None}

\* the hex identity of a key string
Identity(k) == IF npub_to_hex(k) # None THEN npub_to_hex(k) ELSE Lower(k)

\* the secondary listings of a seller: the documents whose seller reference
\* is one of its keys; and those of its identity under either encoding
SecondaryIdsOf(keys) ==
  {d.id : d \in {d \in SecondaryDocs : d.ref \in keys /\ d.seller \in keys}}

SecondaryIdsOfIdentity(keys) ==
  {d.id : d \in {d \in SecondaryDocs :
                   Identity(d.seller) \in {Identity(k) : k \in keys}}}

ListingIds(seller) == {seller.listings[n].id : n \in DOMAIN seller.listings}

NewestFirst(items) ==
  \A m, n \in DOMAIN items :
    m < n => OrZeroPoint(items[m].published_at) >= OrZeroPoint(items[n].published_at)

\* what C5 asks of one returned seller
SecondaryAttached(seller) ==
  /\ ListingIds(seller) \subseteq SecondaryIdsOfIdentity(KeySet(seller))
  /\ Cardinality(ListingIds(seller)) = Len(seller.listings)
  /\ Len(seller.listings) <= ListingsPerSeller
  /\ \/ SecondaryIdsOf(KeySet(seller)) \subseteq ListingIds(seller)
     \/ Len(seller.listings) = ListingsPerSeller
  /\ NewestFirst(seller.listings)

\* C5 as stated: with no query text, whatever the other candidates, a
\* returned seller without primary-table listings that has secondary-table
\* listings is returned with them attached, newest first, capped
C5_SecondaryListingsAttachedAlways ==
  (SearchReturned /\ call.query_text = None) =>
    \A i \in DOMAIN result.value :
      (/\ PrimaryIdsOf(KeySet(result.value[i])) = {}
       /\ SecondaryIdsOf(KeySet(result.value[i])) # {})
        => SecondaryAttached(result.value[i])

\* C5 amended: with no query text, when no returned seller has a listing in
\* the primary table, every returned seller that has secondary-table
\* listings (documents whose seller reference is one of its normalized keys)
\* is returned with them attached, newest first, at most the per-seller cap
C5_SecondaryListingsAttached ==
  (/\ SearchReturned /\ call.query_text = None
   /\ \A i \in DOMAIN result.value : PrimaryIdsOf(KeySet(result.value[i])) = {}) =>
    \A i \in DOMAIN result.value :
      SecondaryIdsOf(KeySet(result.value[i])) # {}
        => SecondaryAttached(result.value[i])

C5_Witness ==
  /\ SearchReturned /\ call.query_text = None
  /\ listings # {} /\ Logged("primary_keys", "ok")
  /\ \A i \in DOMAIN result.value : PrimaryIdsOf(KeySet(result.value[i])) = {}
  /\ \E i \in DOMAIN result.value :
       /\ Cardinality(SecondaryIdsOf(KeySet(result.value[i]))) > ListingsPerSeller
       /\ Len(result.value[i].listings) = ListingsPerSeller
       /\ SecondaryAttached(result.value[i])

\* a demo profile, in the words of the specification: meta_data or filters has
\* hashtag_demo true, "demo" among its hashtags or environment "demo", the
\* strings compared without regard to case
DemoSignal(data) ==
  /\ data.dict
  /\ \/ data.hashtag_demo = "True"
     \/ Range(data.hashtags) \cap {"demo", "Demo", "DEMO"} # {}
     \/ data.environment \in {"demo", "Demo", "DEMO"}

IsDemoProfile(seller) == DemoSignal(seller.meta_data) \/ DemoSignal(seller.filters)

IsClassifiedListing(seller) ==
  \/ seller.meta_data.dict /\ seller.meta_data.type = "classified_listing"
  \/ seller.filters.dict /\ seller.filters.type = "classified_listing"

SellersReturned ==
  call.op \in {"search_sellers", "get_seller_by_id"} /\ result.status = "ok"

\* C6: a call with show_demo_only = true is accepted and returns only demo
\* profiles
C6_DemoOnlyReturnsOnlyDemoProfiles ==
  (call.op = "search_sellers" /\ call.show_demo_only = "True") =>
    /\ result.status = "ok"
    /\ \A i \in DOMAIN result.value : IsDemoProfile(result.value[i])

\* C7: in normal mode no seller that search_sellers or get_seller_by_id
\* returns is a demo profile
C7_NoDemoProfileInNormalMode ==
  (/\ SellersReturned
   /\ call.op = "search_sellers" => call.show_demo_only # "True") =>
    \A i \in DOMAIN result.value : ~IsDemoProfile(result.value[i])

\* a search whose listing-text discovery looked up the key of a demo seller
C7_Witness ==
  /\ SearchReturned /\ call.query_text # None
  /\ 4 \in rows /\ 3 \notin rows /\ 3 \in listings
  /\ Logged("seller_lookup", "ok")
  /\ result.value # <<>>

\* C8: a row with type "classified_listing" in meta_data or filters is never
\* among the sellers returned, with or without a demo flag
C8_ClassifiedListingNeverReturned ==
  SellersReturned =>
    \A i \in DOMAIN result.value : ~IsClassifiedListing(result.value[i])

HasDistance(seller) == seller.vector_distance # NoDist

\* distance - min(score, 1.0) * 0.1, times 100; float("inf") less anything
\* is float("inf")
AdjustedDistance(seller) ==
  IF seller.vector_distance = InfDist THEN InfDist
  ELSE seller.vector_distance - (IF seller.score < 10 THEN seller.score ELSE 10)

\* C9: in the list search_sellers returns, the sellers with a vector
\* distance precede those without, the former in ascending order of
\* distance - min(score, 1.0) * 0.1, the latter in descending order of score
C9_ReturnedOrder ==
  SearchReturned =>
    \A i, j \in DOMAIN result.value :
      i < j =>
        LET a == result.value[i]
            b == result.value[j]
        IN /\ HasDistance(b) => HasDistance(a)
           /\ HasDistance(a) /\ HasDistance(b)
                => AdjustedDistance(a) <= AdjustedDistance(b)
           /\ ~HasDistance(a) /\ ~HasDistance(b) => a.score >= b.score

\* the score moved a seller ahead of one that is nearer, and a seller
\* without distance follows
C9_Witness ==
  /\ SearchReturned
  /\ \E i, j, k \in DOMAIN result.value :
       /\ i < j /\ j < k
       /\ HasDistance(result.value[i]) /\ HasDistance(result.value[j])
       /\ result.value[i].vector_distance > result.value[j].vector_distance
       /\ ~HasDistance(result.value[k])

\* C10: for every limit >= 0, search_sellers returns at most limit sellers,
\* also when listing-text matches added sellers to limit survivors
C10_AtMostLimit ==
  SearchReturned => Len(result.value) <= call.limit

C10_Witness ==
  /\ SearchReturned
  /\ call.limit > 0
  /\ Logged("seller_lookup", "ok")
  /\ call.ranked > call.limit
  /\ Len(result.value) = call.limit
\* C3: once a primary-table statement has failed because the relation does
\* not exist, a call of get_listings_by_public_keys or search_listings_by_text
\* that starts afterwards sends no statement to the primary table, and the
\* statement it sends goes to the secondary document table
C3_LaterCallsUseSecondaryOnly ==
  \A t \in Tasks :
    tasks[t].after =>
      /\ ~tasks[t].primary
      /\ tasks[t].pc # "primary" /\ tasks[t].pc # "rollback"
      /\ tasks[t].outcome # "primary"
      /\ tasks[t].outcome # "empty" => tasks[t].secondary

\* a call that started after the failure has been answered by the secondary
\* table although the primary table exists by now
C3_Witness ==
  /\ failed /\ exists
  /\ \E t \in Tasks :
       /\ tasks[t].after /\ tasks[t].pc = "done"
       /\ tasks[t].outcome = "secondary"

\* C4: the availability flag starts true and never goes from false to true,
\* whatever calls run and however they interleave
C4_FlagDegradeOnly ==
  (available = TRUE) /\ [][available' => available]_vars

\* the flag is off, and a call that had read it on fails on the missing
\* table after that
C4_Witness ==
  /\ ~available
  /\ \E t, u \in Tasks :
       /\ tasks[t].after /\ tasks[t].pc = "done"
       /\ ~tasks[u].after /\ tasks[u].primary /\ tasks[u].pc = "rollback"
\* C11: in every map get_listings_by_public_keys returns, from the primary
\* or from the secondary table, the list of each key is in descending order
\* of published_at and has at most listings_per_seller entries
C11_MapSortedAndCapped ==
  (call.op = "get_listings_by_public_keys" /\ result.status = "ok") =>
    \A k \in KeyStrings :
      /\ NewestFirst(result.value[k])
      /\ Len(result.value[k]) <= Max(ListingsPerSeller, 0)
Ranked == call.op = "filter_and_rank_listings" /\ result.status = "ok"

\* the words of a query, as the ranker counts them
QueryWords(query) ==
  IF query = "q1" THEN {"q1"}
  ELSE IF query = "q1 q2" THEN {"q1", "q2"}
  ELSE {}

MatchScore(listing, query) == Cardinality(QueryWords(query) \cap listing.text)

\* the positions of the input that hold the first listing of their id
FirstOccurrences(items) ==
  {i \in DOMAIN items :
     items[i].id = None \/ \A j \in 1 .. i - 1 : items[j].id # items[i].id}

\* the place of position i among the positions P: after every position of
\* a higher score, or of the same score and a later timestamp, or of the
\* same score and timestamp and earlier in the input
PlaceOf(i, P, items, query) ==
  1 + Cardinality({j \in P :
        \/ MatchScore(items[j], query) > MatchScore(items[i], query)
        \/ /\ MatchScore(items[j], query) = MatchScore(items[i], query)
           /\ OrZeroPoint(items[j].published_at) > OrZeroPoint(items[i].published_at)
        \/ /\ MatchScore(items[j], query) = MatchScore(items[i], query)
           /\ OrZeroPoint(items[j].published_at) = OrZeroPoint(items[i].published_at)
           /\ j < i})

\* value holds the first n of the positions P in that order
IsFirstOf(value, P, items, query, n) ==
  /\ Len(value) = Min(Cardinality(P), Max(n, 0))
  /\ \A i \in P :
       PlaceOf(i, P, items, query) <= Len(value)
         => value[PlaceOf(i, P, items, query)] = items[i]

NoListingMatches ==
  /\ QueryWords(call.query) # {}
  /\ \A i \in DOMAIN call.listings : MatchScore(call.listings[i], call.query) = 0

\* C12: when the query has a token and no listing scores above 0, the
\* result is the input without the later listings of a repeated id, newest
\* first (no timestamp counting as the zero point), cut to max_items, and
\* best_score is 0
C12_RecencyFallback ==
  (Ranked /\ NoListingMatches) =>
    /\ IsFirstOf(result.value, FirstOccurrences(call.listings),
                 call.listings, call.query, call.max_items)
    /\ result.best_score = 0

\* the fallback dropped a repeated listing, moved a newer listing ahead of
\* one without timestamp and cut the list
C12_Witness ==
  /\ Ranked /\ NoListingMatches
  /\ Cardinality(FirstOccurrences(call.listings)) < Len(call.listings)
  /\ Len(result.value) < Cardinality(FirstOccurrences(call.listings))
  /\ result.value # <<>>
  /\ call.listings[1].published_at = NoTime
  /\ result.value[1] # call.listings[1]

SomeListingMatches ==
  /\ QueryWords(call.query) # {}
  /\ \E i \in DOMAIN call.listings : MatchScore(call.listings[i], call.query) > 0

SomeFirstListingMatches ==
  /\ QueryWords(call.query) # {}
  /\ \E i \in FirstOccurrences(call.listings) :
       MatchScore(call.listings[i], call.query) > 0

\* what C13 asks of the result, best being the score best_score must equal
MatchesOnly(best) ==
  /\ \A n \in DOMAIN result.value : MatchScore(result.value[n], call.query) > 0
  /\ \A m, n \in DOMAIN result.value :
       (m # n /\ result.value[m].id # None) => result.value[m].id # result.value[n].id
  /\ \A m, n \in DOMAIN result.value :
       m < n =>
         \/ MatchScore(result.value[m], call.query) > MatchScore(result.value[n], call.query)
         \/ /\ MatchScore(result.value[m], call.query) = MatchScore(result.value[n], call.query)
            /\ OrZeroPoint(result.value[m].published_at)
                 >= OrZeroPoint(result.value[n].published_at)
  /\ result.best_score = best
  /\ result.best_score > 0

\* C13 as stated: when a token of the query matches some listing of the
\* input, the result holds only listings that match, one per id, by score
\* and then recency, and best_score is the largest score in the input
C13_MatchesOnlyAlways ==
  (Ranked /\ SomeListingMatches) =>
    MatchesOnly(CHOOSE b \in 0 .. 2 :
      /\ \E i \in DOMAIN call.listings : MatchScore(call.listings[i], call.query) = b
      /\ \A i \in DOMAIN call.listings : MatchScore(call.listings[i], call.query) <= b)

\* C13 amended: for max_items >= 1, when a token of the query matches a
\* listing that is the first of its id in the input, the result holds only
\* listings that match, one per id, by score and then recency, and
\* best_score is the largest score among the first listings of each id
C13_MatchesOnly ==
  (Ranked /\ SomeFirstListingMatches /\ call.max_items >= 1) =>
    /\ MatchesOnly(CHOOSE b \in 0 .. 2 :
         /\ \E i \in FirstOccurrences(call.listings) :
              MatchScore(call.listings[i], call.query) = b
         /\ \A i \in FirstOccurrences(call.listings) :
              MatchScore(call.listings[i], call.query) <= b)
    /\ IsFirstOf(result.value,
                 {i \in FirstOccurrences(call.listings) :
                    MatchScore(call.listings[i], call.query) > 0},
                 call.listings, call.query, call.max_items)

\* two listings match with different scores, the better one later in the
\* input, and a listing that does not match is left out
C13_Witness ==
  /\ Ranked /\ SomeFirstListingMatches /\ call.max_items >= 2
  /\ Len(result.value) = 2
  /\ Len(call.listings) = 3
  /\ MatchScore(result.value[1], call.query) > MatchScore(result.value[2], call.query)
  /\ result.value[1] = call.listings[3]

\* C14: filter_and_rank_listings returns at most max(max_items, 0)
\* listings, and ([], 0) when max_items is 0 or negative
C14_AtMostMaxItems ==
  Ranked =>
    /\ Len(result.value) <= Max(call.max_items, 0)
    /\ call.max_items <= 0 => (result.value = <<>> /\ result.best_score = 0)

\* a negative max_items with listings that match, and a cut at max_items
C14_Witness ==
  /\ Ranked /\ SomeListingMatches
  /\ \/ call.max_items < 0 /\ result.value = <<>>
     \/ call.max_items = 1 /\ Len(call.listings) = 3 /\ Len(result.value) = 1
TextSearched == call.op = "search_listings_by_text" /\ result.status = "ok"

\* the parsed rows of the table that answered the text search: those of the
\* primary table when its statement ran and fetched a listing, else those of
\* the secondary table
FetchedEntries ==
  IF Logged("primary_text", "ok")
       /\ PrimaryTextEntries(Ctx({}), call.query, call.limit) # <<>>
  THEN PrimaryTextEntries(Ctx({}), call.query, call.limit)
  ELSE FallbackTextEntries(Ctx({}), call.query, call.limit)

PositiveEntries ==
  SelectSeq(FetchedEntries, LAMBDA e : MatchScore(e.listing, call.query) > 0)

\* C15: search_listings_by_text returns [] without a database statement for
\* an absent or blank query; otherwise at most limit entries of the rows it
\* fetched from the table that answered: the rows that score above 0 if
\* there are any, else all rows with score 0, in descending order of
\* (score, published_at)
C15_TextSearchResult ==
  TextSearched =>
    IF call.query = None \/ call.query = " "
    THEN result.value = <<>> /\ log = <<>>
    ELSE
      /\ Len(result.value) <= call.limit
      /\ \A n \in DOMAIN result.value :
           /\ \E i \in DOMAIN FetchedEntries :
                /\ FetchedEntries[i].pubkey = result.value[n].pubkey
                /\ FetchedEntries[i].listing = result.value[n].listing
           /\ result.value[n].score = 10 * MatchScore(result.value[n].listing, call.query)
      /\ IF PositiveEntries # <<>>
         THEN /\ \A n \in DOMAIN result.value : result.value[n].score > 0
              /\ Len(result.value) = Min(call.limit, Len(PositiveEntries))
         ELSE /\ \A n \in DOMAIN result.value : result.value[n].score = 0
              /\ Len(result.value) = Min(call.limit, Len(FetchedEntries))
      /\ \A m, n \in DOMAIN result.value :
           m < n =>
             \/ result.value[m].score > result.value[n].score
             \/ /\ result.value[m].score = result.value[n].score
                /\ OrZeroPoint(result.value[m].listing.published_at)
                     >= OrZeroPoint(result.value[n].listing.published_at)

\* a search whose two fetched rows match, returned the better score first
C15_Witness ==
  /\ TextSearched
  /\ Len(result.value) = 2
  /\ result.value[1].score > result.value[2].score
  /\ PositiveEntries # <<>>

\* a search none of whose fetched rows scores: the rows come back with score 0
C15_WitnessZero ==
  /\ TextSearched
  /\ result.value # <<>>
  /\ PositiveEntries = <<>>

KeyDecoded == call.op = "npub_to_hex" /\ result.status = "ok"

LowerHexCodes == {48, 49, 50, 51, 52, 53, 54, 55, 56, 57,
                  97, 98, 99, 100, 101, 102}

IsHexKey(chars) ==
  Len(chars) = 64 /\ \A i \in 1 .. Len(chars) : chars[i] \in LowerHexCodes

\* C16: _npub_to_hex returns either nothing or exactly one key of 64
\* lower-case hexadecimal characters, whatever string it is given
C16_KeyOrInvalid ==
  KeyDecoded => (result.value = <<>> \/ IsHexKey(result.value[1]))

\* a well-formed npub of a 32-byte key is decoded to its 64 characters
C16_DecodesKey ==
  KeyDecoded /\ result.value # <<>> /\ IsHexKey(result.value[1])

\* a string with a bad character, checksum or prefix is refused
C16_Refuses == KeyDecoded /\ result.value = <<>>

Parsed == call.op \in {"parse_listing", "parse_classified_listing_row"}

\* C17: neither listing parser raises, whatever the row holds: it returns a
\* listing or nothing
C17_ParsersNeverRaise == Parsed => result.status = "ok"

\* a row whose price amount cannot be read and whose time is out of range
\* still gives a listing, without the amount and without the time
C17_FieldDropped ==
  /\ Parsed
  /\ result.status = "ok"
  /\ result.value # <<>>
  /\ result.value[1].amount = None
  /\ result.value[1].published_at = NoTime

HandlersChecked ==
  call.op = "check_handlers" /\ call.pc = "done" /\ result.status = "ok"

\* C18: check_handlers gives True or False for an npub it had to ask the
\* relays about only when the relay query succeeded; after a failed or
\* timed-out query each such npub is None, and so is an npub without a hex
\* form
C18_BooleanOnlyWhenQuerySucceeded ==
  HandlersChecked =>
    \A npub \in Range(call.uncached) \cap DOMAIN result.value :
      /\ pool_npub_to_hex(npub) = None => result.value[npub] = None
      /\ call.outcome \in {"timeout", "error", "raised"}
           => result.value[npub] = None
      /\ result.value[npub] # None => call.outcome = "ok"

\* the d tags of a call, with their default
TagsOf(d_tags) == IF d_tags = None THEN <<"9901">> ELSE d_tags

SameTagSet(d1, d2) == Range(TagsOf(d1)) = Range(TagsOf(d2))

\* the same tags the same number of times, in any order
SameTagBag(d1, d2) ==
  \A tag \in {"9901", "9902"} :
    Cardinality({i \in DOMAIN TagsOf(d1) : TagsOf(d1)[i] = tag})
      = Cardinality({i \in DOMAIN TagsOf(d2) : TagsOf(d2)[i] = tag})

\* a value check_handlers stored for npub under the d tags d0, not expired
Obtained(npub, d0) ==
  \E cached \in pool.cache :
    cached.key = cache_key(d0, npub) /\ cached.expires_at > pool.now

ObtainedValue(npub, d0) ==
  (CHOOSE cached \in pool.cache : cached.key = cache_key(d0, npub)).value

CallBegins == call.op = "none" /\ call'.op = "check_handlers"

\* what a call that begins owes to the values obtained before it, Same
\* telling which d tags of earlier calls count as the d tags of this one
ServedFromCache(Same(_, _)) ==
  CallBegins =>
    LET known == {npub \in Range(call'.npubs) :
                    \E d0 \in DTagLists :
                      Same(d0, call'.d_tags) /\ Obtained(npub, d0)}
    IN  /\ \A npub \in known :
             \A d0 \in DTagLists :
               Same(d0, call'.d_tags) /\ Obtained(npub, d0) =>
                 /\ npub \in DOMAIN call'.results
                 /\ call'.results[npub] = ObtainedValue(npub, d0)
                 /\ call'.pc = "done" => result'.value[npub] = ObtainedValue(npub, d0)
        /\ pool'.cache_hits - pool.cache_hits
             = Cardinality({i \in DOMAIN call'.npubs : call'.npubs[i] \in known})
        /\ Len(log') <= 1
        /\ \A i \in DOMAIN log' :
             Range(log'[i].authors)
               = {pool_npub_to_hex(npub) :
                    npub \in {n \in Range(call'.npubs) \ known :
                                pool_npub_to_hex(n) # None}}

\* the answers of the relays leave the cached values of the call as they are
CachedValuesKept ==
  (call.op = "check_handlers" /\ call.pc = "await" /\ call'.pc = "done") =>
    /\ log' = log
    /\ \A npub \in DOMAIN call.results :
         call.results[npub] # None => result'.value[npub] = call.results[npub]

Merged == call.op = "merge_sellers" /\ result.status = "ok"

CanonicalKeyOf(seller) ==
  IF select_canonical_key(seller.normalized_pubkeys) # None
  THEN select_canonical_key(seller.normalized_pubkeys)
  ELSE Lower(seller.id)

\* the canonical keys of the sellers handed to the merge, in order
MergeKeys ==
  Dedup([i \in DOMAIN call.sellers |-> CanonicalKeyOf(call.sellers[i])])

InstancesOf(key) ==
  {i \in DOMAIN call.sellers : CanonicalKeyOf(call.sellers[i]) = key}

KnownDistances(instances) ==
  {call.sellers[i].vector_distance : i \in instances} \ {NoDist}

LeastOf(numbers) == CHOOSE n \in numbers : \A other \in numbers : n <= other

GreatestOf(numbers) == CHOOSE n \in numbers : \A other \in numbers : n >= other

\* C20: a record merged from several sellers of one canonical key has the
\* least of the distances its sellers have (0 is a distance, and the least),
\* has no distance when none of them has one, and has the greatest of their
\* scores
C20_MergedDistanceAndScore ==
  Merged =>
    /\ Len(result.value) = Len(MergeKeys)
    /\ \A j \in DOMAIN MergeKeys :
         Cardinality(InstancesOf(MergeKeys[j])) >= 2 =>
           /\ result.value[j].vector_distance
                = IF KnownDistances(InstancesOf(MergeKeys[j])) = {} THEN NoDist
                  ELSE LeastOf(KnownDistances(InstancesOf(MergeKeys[j])))
           /\ result.value[j].score
                = GreatestOf({call.sellers[i].score :
                                i \in InstancesOf(MergeKeys[j])})

\* the part of C20 that the merge keeps: the greatest score, and the least
\* distance when every merged seller has a distance other than 0
C20_MergedScore ==
  Merged =>
    \A j \in DOMAIN MergeKeys :
      Cardinality(InstancesOf(MergeKeys[j])) >= 2 =>
        /\ result.value[j].score
             = GreatestOf({call.sellers[i].score :
                             i \in InstancesOf(MergeKeys[j])})
        /\ (\A i \in InstancesOf(MergeKeys[j]) :
              call.sellers[i].vector_distance \notin {NoDist, 0})
             => result.value[j].vector_distance
                  = LeastOf(KnownDistances(InstancesOf(MergeKeys[j])))

\* a direct call of the listing store ends in this step
StoreCallEnds ==
  /\ call.op = "none"
  /\ call'.op \in {"get_listings_by_public_keys", "search_listings_by_text"}

\* C21: when the primary-table statement of get_listings_by_public_keys or
\* search_listings_by_text fails with a database error that is not a
\* missing-table error, the flag stays as it was (available), the call goes
\* on to the secondary table; and a call that finds the flag available
\* begins with the primary table, so the next call attempts it again
C21_ErrorLeavesFlagAvailable ==
  [][StoreCallEnds =>
       /\ \A n \in DOMAIN log' :
            (log'[n].q \in PrimaryQueries /\ log'[n].out = "error") =>
              /\ available /\ available'
              /\ \E m \in DOMAIN log' :
                   m > n /\ log'[m].q \in {"fallback_keys", "fallback_text"}
       /\ (available /\ log' # <<>>) => log'[1].q \in PrimaryQueries]_vars

\* a call whose primary statement failed with a transient error has gone on
\* to the secondary table, and the flag is still on
C21_Witness ==
  /\ call.op \in {"get_listings_by_public_keys", "search_listings_by_text"}
  /\ available
  /\ \E n, m \in DOMAIN log :
       /\ log[n].q \in PrimaryQueries /\ log[n].out = "error"
       /\ m > n /\ log[m].q \in {"fallback_keys", "fallback_text"}

\* C22: within one request, after a statement on the session has failed no
\* further statement is issued on it before a rollback: a failed statement
\* is either the last thing the request does on the session or is followed
\* at once by the rollback, so the secondary-table statement never comes
\* between a failed primary statement and its rollback
C22_RollbackBeforeNextQuery ==
  \A n \in DOMAIN log :
    (log[n].out # "ok" /\ n < Len(log)) => log[n + 1].q = "rollback"

\* a request of search_sellers in which a primary statement failed, was
\* rolled back, and the secondary statement followed
C22_Witness ==
  /\ call.op = "search_sellers"
  /\ \E n \in DOMAIN log :
       /\ log[n].q \in PrimaryQueries /\ log[n].out # "ok"
       /\ n + 2 <= Len(log)
       /\ log[n + 1].q = "rollback"
       /\ log[n + 2].q \in {"fallback_keys", "fallback_text"}

\* C23: with several listing-store calls in flight while the primary table
\* may be missing, under every interleaving: a call attempts the primary
\* table only when it starts (at most once per call), a failed attempt is
\* followed by the rollback and then by the secondary statement, from which
\* the call completes; once an attempt has failed on the missing table the
\* flag is false, and the transition has been logged exactly once
C23_ConcurrentDegradeOnce ==
  /\ [](failed => ~available)
  /\ [](notices = IF failed THEN 1 ELSE 0)
  /\ [](\A t \in Tasks :
          (tasks[t].pc = "done" /\ tasks[t].outcome # "empty") =>
            \/ tasks[t].outcome = "primary" /\ ~tasks[t].secondary
            \/ tasks[t].outcome \in {"secondary", "raised"}
                 /\ tasks[t].secondary)
  /\ [][\A t \in Tasks :
          /\ (tasks'[t].pc = "primary" /\ tasks[t].pc # "primary")
               => tasks[t].pc = "idle" /\ available
          /\ (tasks[t].pc = "primary" /\ tasks'[t].pc # "primary")
               => tasks'[t].pc \in {"rollback", "fallback", "done"}
          /\ (tasks[t].pc = "rollback" /\ tasks'[t].pc # "rollback")
               => tasks'[t].pc = "fallback"
          /\ (tasks[t].pc = "fallback" /\ tasks'[t].pc # "fallback")
               => tasks'[t].pc = "done"]_vars

\* two calls had both read the flag as available; both have made their
\* attempt, and both have completed from the secondary table; the
\* primary table is missing, the flag is off and one notice is logged
C23_Witness ==
  /\ ~exists /\ failed /\ ~available /\ notices = 1
  /\ \A t \in Tasks :
       /\ ~tasks[t].after /\ tasks[t].primary
       /\ tasks[t].pc = "done" /\ tasks[t].outcome = "secondary"

Normalized == call.op = "normalize_pubkeys" /\ result.status = "ok"

\* an input after trimming and lower-casing
Candidate(item) == str_lower(str_strip(item.text))

\* the strings an input may add: its candidate, and the hexadecimal key the
\* candidate decodes to
GivenBy(item) ==
  IF ~item.str THEN {}
  ELSE {Candidate(item)}
       \cup (IF npub_decode(Candidate(item)) # <<>>
             THEN {npub_decode(Candidate(item))[1]} ELSE {})

\* the first input that may add the string x
FirstGiving(x) ==
  CHOOSE i \in DOMAIN call.pubkeys :
    /\ x \in GivenBy(call.pubkeys[i])
    /\ \A j \in 1 .. i - 1 : x \notin GivenBy(call.pubkeys[j])

\* the output has no duplicates and keeps the order of first appearance
NormalizedInOrder ==
  Normalized =>
    /\ \A a, b \in DOMAIN result.value :
         a # b => result.value[a] # result.value[b]
    /\ \A a \in DOMAIN result.value :
         \E i \in DOMAIN call.pubkeys : result.value[a] \in GivenBy(call.pubkeys[i])
    /\ \A a, b \in DOMAIN result.value :
         a < b =>
           \/ FirstGiving(result.value[a]) < FirstGiving(result.value[b])
           \/ /\ FirstGiving(result.value[a]) = FirstGiving(result.value[b])
              /\ result.value[a] =
                   Candidate(call.pubkeys[FirstGiving(result.value[a])])

\* an input is added only if it is a hexadecimal key or decodes
AddedOnlyIfKey ==
  Normalized =>
    \A i \in DOMAIN call.pubkeys :
      (call.pubkeys[i].str /\ Contains(result.value, Candidate(call.pubkeys[i])))
        => \/ IsHexKey(Candidate(call.pubkeys[i]))
           \/ npub_decode(Candidate(call.pubkeys[i])) # <<>>

\* an input that decodes gives its lower-cased form and its hexadecimal key
DecodedGivesBoth ==
  Normalized =>
    \A i \in DOMAIN call.pubkeys :
      (call.pubkeys[i].str /\ npub_decode(Candidate(call.pubkeys[i])) # <<>>)
        => /\ Contains(result.value, Candidate(call.pubkeys[i]))
           /\ Contains(result.value, npub_decode(Candidate(call.pubkeys[i]))[1])

\* C24: _normalize_pubkeys adds an input only if, trimmed and lower-cased,
\* it is a valid hexadecimal key or decodes; an input that decodes gives
\* both its lower-cased bech32 form and its hexadecimal key; the output has
\* no duplicates and keeps the order of first appearance
C24_NormalizedKeys == AddedOnlyIfKey /\ DecodedGivesBoth /\ NormalizedInOrder

PriceParsed == call.op = "parse_price" /\ call.price_entries # <<>>

\* C25: _parse_price gives no Price when the amount of the price tag is not
\* numeric and no currency is present (an empty currency component
\* included); a Price it gives carries a numeric amount or a non-empty
\* currency; a numeric amount with a currency and an optional third
\* component gives amount, currency and frequency
C25_PriceOrNothing ==
  PriceParsed =>
    /\ result.status = "ok"
    /\ ((Len(call.price_entries[1]) = 0
           \/ FloatOf(call.price_entries[1][1]) = None)
        /\ (Len(call.price_entries[1]) < 2 \/ call.price_entries[1][2] = ""))
         => result.value = <<>>
    /\ result.value # <<>> =>
         (result.value[1].amount # None \/ result.value[1].currency # None)
    /\ (Len(call.price_entries[1]) >= 2
        /\ FloatOf(call.price_entries[1][1]) # None
        /\ call.price_entries[1][2] # "")
         => /\ result.value # <<>>
            /\ result.value[1].amount = FloatOf(call.price_entries[1][1])
            /\ result.value[1].currency = call.price_entries[1][2]
            /\ result.value[1].frequency =
                 IF Len(call.price_entries[1]) >= 3
                    /\ call.price_entries[1][3] # ""
                 THEN call.price_entries[1][3] ELSE None

\* C26: every listing either parser gives holds the keys content, images,
\* tags, raw_tags and summary, whatever their values, and holds no other
\* key whose value is None
C26_StableListingShape ==
  (Parsed /\ result.status = "ok" /\ result.value # <<>>) =>
    /\ {"content", "images", "tags", "raw_tags", "summary"}
         \subseteq result.value[1].keys
    /\ \A key \in result.value[1].keys :
         key \notin {"content", "images", "tags", "raw_tags", "summary"}
           => ~is_none(key, result.value[1].payload[key])

Annotated == call.op = "annotate_geo"

HasCoordinates(listing) == listing.latitude # None /\ listing.longitude # None

\* the distances of the listings that carry coordinates and lie at a
\* distance that is a number
KnownGeoDistances ==
  {result.value.listings[i].geo_distance_km[1] :
     i \in {j \in DOMAIN result.value.listings :
              /\ result.value.listings[j].geo_distance_km # <<>>
              /\ ~result.value.listings[j].geo_distance_km[1].nan}}

\* without user coordinates nothing is annotated
NothingWithoutCoordinates ==
  (Annotated /\ call.user_coordinates = None) =>
    /\ result.status = "ok"
    /\ result.value.geo_distance_km = <<>> /\ result.value.maps_url = <<>>
    /\ \A i \in DOMAIN result.value.listings :
         /\ result.value.listings[i].geo_distance_km = <<>>
         /\ result.value.listings[i].maps_url = <<>>

\* with user coordinates every listing that carries coordinates is
\* annotated
EveryListingAnnotated ==
  (Annotated /\ call.user_coordinates # None) =>
    /\ result.status = "ok"
    /\ \A i \in DOMAIN call.trimmed_listings :
         HasCoordinates(call.trimmed_listings[i]) =>
           /\ result.value.listings[i].geo_distance_km # <<>>
           /\ result.value.listings[i].maps_url # <<>>

\* the seller has the distance and the coordinates of its nearest listing
SellerAtNearestListing ==
  (Annotated /\ call.user_coordinates # None /\ result.status = "ok"
     /\ KnownGeoDistances # {}) =>
    /\ result.value.geo_distance_km # <<>>
    /\ result.value.geo_distance_km[1] \in KnownGeoDistances
    /\ \A d \in KnownGeoDistances : result.value.geo_distance_km[1].km <= d.km
    /\ \E i \in DOMAIN result.value.listings :
         /\ result.value.listings[i].geo_distance_km
              = result.value.geo_distance_km
         /\ result.value.coords = <<result.value.listings[i].latitude,
                                    result.value.listings[i].longitude>>
         /\ result.value.maps_url = result.value.listings[i].maps_url

\* C27: without user coordinates the geo step gives no listing and no
\* seller a geo_distance_km or a map link; with user coordinates every
\* returned listing that carries a numeric latitude and longitude gets
\* both, and the seller gets the distance and the coordinates of its
\* nearest returned listing
C27_GeoAnnotation ==
  NothingWithoutCoordinates /\ EveryListingAnnotated /\ SellerAtNearestListing

\* between two closes the pool constructs at most one Client
OneClientUntilClose == pool.clients <= pool.closes + 1

\* no caller has been handed a client whose relays were not all added or
\* whose connect attempt had not ended
NoClientInSetUp ==
  \A t \in Tasks :
    (tasks[t].client # <<>> /\ tasks[t].client[1] # 0) => tasks[t].complete

\* C28: under concurrent callers of _ensure_client at most one Client is
\* constructed per pool until close, and a caller receives the client only
\* after the relays were added and the connect attempt has ended
C28_ClientReadyWhenReturned == OneClientUntilClose /\ NoClientInSetUp

RelayUrls == DOMAIN pool.relay_metrics

\* a relay whose status becomes circuit_open has reached the threshold and
\* has its circuit_open_until set
OpenedAtThreshold ==
  [][\A url \in RelayUrls :
       (/\ pool.relay_metrics[url].status # "circuit_open"
        /\ pool'.relay_metrics[url].status = "circuit_open") =>
         /\ pool'.relay_metrics[url].consecutive_errors
              >= CircuitBreakerThreshold
         /\ pool'.relay_metrics[url].circuit_open_until # NoTime]_vars

\* a relay whose consecutive errors reach the threshold becomes
\* circuit_open
ThresholdOpens ==
  [][\A url \in RelayUrls :
       (/\ pool.relay_metrics[url].consecutive_errors
             < CircuitBreakerThreshold
        /\ pool'.relay_metrics[url].consecutive_errors
             >= CircuitBreakerThreshold) =>
         /\ pool'.relay_metrics[url].status = "circuit_open"
         /\ pool'.relay_metrics[url].circuit_open_until # NoTime]_vars

\* a successful query resets the consecutive errors
SuccessResets ==
  [][(call'.op = "query_relays" /\ call.op = "none"
        /\ call'.outcome = "events") =>
       \A url \in RelayUrls :
         pool'.relay_metrics[url].consecutive_errors = 0]_vars

\* get_cache_stats closes the circuits whose time has passed
StatsCloseCircuit ==
  [][(call'.op = "get_cache_stats" /\ call.op = "none") =>
       \A url \in RelayUrls :
         (/\ pool.relay_metrics[url].status = "circuit_open"
          /\ pool.relay_metrics[url].circuit_open_until < pool.now) =>
           /\ pool'.relay_metrics[url].status = "connected"
           /\ pool'.relay_metrics[url].consecutive_errors = 0
           /\ pool'.relay_metrics[url].circuit_open_until = NoTime
           /\ result'.value[url] = "connected"]_vars

\* an open circuit has at least threshold consecutive errors
OpenMeansThreshold ==
  \A url \in RelayUrls :
    pool.relay_metrics[url].status = "circuit_open" =>
      pool.relay_metrics[url].consecutive_errors >= CircuitBreakerThreshold

\* C29: a relay becomes circuit_open, with circuit_open_until set, exactly
\* when its consecutive errors reach circuit_breaker_threshold; a
\* successful query resets the consecutive errors to 0; once
\* circuit_open_until has passed, get_cache_stats returns the relay to
\* connected with no consecutive errors and no circuit_open_until; and a
\* relay that is circuit_open always has at least threshold consecutive
\* errors
C29_CircuitBreaker ==
  /\ OpenedAtThreshold
  /\ ThresholdOpens
  /\ SuccessResets
  /\ StatsCloseCircuit
  /\ []OpenMeansThreshold

ListingsByKeysReturned ==
  call.op = "get_listings_by_public_keys" /\ result.status = "ok"

\* the rows of the primary table that the statement of
\* get_listings_by_public_keys selects for the requested keys and that
\* _parse_listing accepts
PrimaryHits ==
  {i \in listings : /\ ListingPool[i].kind = 30402
                    /\ Contains(call.public_keys, ListingPool[i].pubkey)
                    /\ ListingPool[i].tags.title # None}

\* the ids of the listings in the returned map
ReturnedIds ==
  UNION {{result.value[k][n].id : n \in DOMAIN result.value[k]} :
           k \in DOMAIN result.value}

SecondaryQueried == \E n \in DOMAIN log : log[n].q = "fallback_keys"

\* C30: within one call of get_listings_by_public_keys the secondary
\* document table is queried only when the primary path gave no listing for
\* the whole requested key set (flag off, query error or empty result); when
\* the primary table returned a parseable listing for a requested key, the
\* returned map holds primary-table listings only and the secondary table
\* is not queried
C30_SourcesNeverMixed ==
  ListingsByKeysReturned =>
    /\ SecondaryQueried =>
         (~Logged("primary_keys", "ok") \/ PrimaryHits = {})
    /\ (Logged("primary_keys", "ok") /\ PrimaryHits # {}) =>
         /\ ~SecondaryQueried
         /\ ReturnedIds # {}
         /\ ReturnedIds \subseteq {ListingPool[i].event_id : i \in PrimaryHits}

\* a call whose keys have listings in both tables, answered from the
\* primary table
C30_Witness ==
  /\ ListingsByKeysReturned
  /\ Logged("primary_keys", "ok") /\ PrimaryHits # {}
  /\ SecondaryIdsOf({call.public_keys[n] : n \in DOMAIN call.public_keys}) # {}
  /\ ReturnedIds # {}

====
